---- MODULE Spec2Model ----
(***************************************************************************)
(* Secret resolution engine of oci_vault_resolver.py: the circuit breaker, *)
(* the retried remote fetch, the file cache with stale fallback and        *)
(* resolve_secret.                                                          *)
(*                                                                         *)
(* Time is an integer clock `now` (the value time.time() returns); the     *)
(* action Tick lets it pass between any two steps.  Python's None is the    *)
(* empty sequence and a present value x is <<x>>.                          *)
(***************************************************************************)
EXTENDS Integers, Sequences, FiniteSets, TLC

\* ------------------------------------------------------------------ bounds
\* Last value of the clock.
MaxTime == 2
\* CircuitBreaker(failure_threshold, recovery_timeout, success_threshold) is
\* constructed with every combination of 1..Max* .
MaxFailureThreshold == 3
MaxRecoveryTimeout == 2
MaxSuccessThreshold == 2
\* VaultResolver(circuit_breaker_threshold = 1..MaxBreakerThreshold).
MaxBreakerThreshold == 1

\* VaultResolver(ttl = Ttl), in clock units.
Ttl == 1
\* VaultResolver(max_retries = MaxRetries).
MaxRetries == 1
\* Number of resolve_secret calls made on one resolver.
MaxCalls == 2
\* Number of get_cached_secret / cache_secret calls made directly.
MaxCacheOps == 2
\* Documents given to resolve_config: entries of the top-level map, and
\* elements of a list.
MaxEntries == 2
MaxListLen == 1
\* Length of the list given to fetch_secrets_parallel.
MaxBatch == 2
\* retry_with_backoff(max_retries = 0..MaxWrapperRetries) used on its own.
MaxWrapperRetries == 2
\* threads using the cache entry of one key at the same time
MaxThreads == 3
\* pieces in the path and in the query string of a reference string
MaxPathLen == 3
MaxQueryLen == 3

None == <<>>
Some(x) == <<x>>
\* Python truthiness of an Optional[str]: neither None nor "".
Truthy(x) == x # None /\ x[1] # ""

\* ------------------------------------------------- outcomes of a function
\* What a called function does: it returns val or raises exc.
Return(v) == [kind |-> "return", val |-> Some(v), exc |-> None]
Raise(e) == [kind |-> "raise", val |-> None, exc |-> Some(e)]

\* Exceptions: the class, the HTTP status of an oci ServiceError (0 for the
\* other classes) and the message text the handlers look at.
Exc(type, status, msg) == [type |-> type, status |-> status, msg |-> msg]
ServiceError(status) == Exc("ServiceError", status, "service error")
OtherException == Exc("Exception", 0, "unexpected")
BreakerOpenError == Exc("VaultResolverError", 0, "Circuit breaker is OPEN")

\* Secret values the remote may hold; "" is an empty secret.
Values == {"v1", "v2"}
Statuses == {401, 403, 404, 500}

\* Outcomes of a function wrapped by CircuitBreaker.call.
FuncOutcomes == {Return(v) : v \in Values \cup {""}} \cup {Raise(ServiceError(s)) : s \in Statuses} \cup {Raise(OtherException)}

\* -------------------------------------------------------- circuit breaker
CLOSED == "closed"
OPEN == "open"
HALF_OPEN == "half_open"

\* CircuitBreaker.__init__
CircuitBreaker(ft, rt, st) == [failure_threshold |-> ft, recovery_timeout |-> rt, success_threshold |-> st, failure_count |-> 0, success_count |-> 0, last_failure_time |-> None, state |-> CLOSED]

\* Faulty variant of _should_attempt_reset: the recovery timeout is ignored.
_should_attempt_reset_no_timeout(b, t) ==
  b.last_failure_time # None

\* CircuitBreaker._should_attempt_reset at clock value t
_should_attempt_reset(b, t) ==
  IF b.last_failure_time = None
    THEN FALSE
    ELSE (t - b.last_failure_time[1]) >= b.recovery_timeout

\* Faulty variant of _on_success: failure_count is not reset.
_on_success_keeps_failures(b) ==
  LET b2 == [b EXCEPT !.success_count = @ + 1]
  IN IF b.state = HALF_OPEN
       THEN IF b2.success_count >= b2.success_threshold
              THEN [b2 EXCEPT !.state = CLOSED, !.success_count = 0]
              ELSE b2
       ELSE b

\* Faulty variant of _on_success: closes one success too late (> for >=).
_on_success_late_close(b) ==
  LET b1 == [b EXCEPT !.failure_count = 0]
      b2 == [b1 EXCEPT !.success_count = @ + 1]
  IN IF b1.state = HALF_OPEN
       THEN IF b2.success_count > b2.success_threshold
              THEN [b2 EXCEPT !.state = CLOSED, !.success_count = 0]
              ELSE b2
       ELSE b1

\* CircuitBreaker._on_success
_on_success(b) ==
  LET b1 == [b EXCEPT !.failure_count = 0]
      b2 == [b1 EXCEPT !.success_count = @ + 1]
  IN IF b1.state = HALF_OPEN
       THEN IF b2.success_count >= b2.success_threshold
              THEN [b2 EXCEPT !.state = CLOSED, !.success_count = 0]
              ELSE b2
       ELSE b1

\* Faulty variant of _on_failure: success_count is not reset.
_on_failure_keeps_successes(b, t) ==
  LET b1 == [b EXCEPT !.failure_count = @ + 1, !.last_failure_time = Some(t)]
  IN IF b1.failure_count >= b1.failure_threshold /\ b1.state # OPEN
       THEN [b1 EXCEPT !.state = OPEN]
       ELSE b1

\* CircuitBreaker._on_failure at clock value t
_on_failure(b, t) ==
  LET b1 == [b EXCEPT !.failure_count = @ + 1, !.last_failure_time = Some(t), !.success_count = 0]
  IN IF b1.failure_count >= b1.failure_threshold /\ b1.state # OPEN
       THEN [b1 EXCEPT !.state = OPEN]
       ELSE b1

\* Faulty variant of call_admit: a rejected call restarts the recovery timeout.
call_admit_postpones(b, t) ==
  IF b.state = OPEN
    THEN IF _should_attempt_reset(b, t)
           THEN [admitted |-> TRUE, cb |-> [b EXCEPT !.state = HALF_OPEN]]
           ELSE [admitted |-> FALSE, cb |-> [b EXCEPT !.last_failure_time = Some(t)]]
    ELSE [admitted |-> TRUE, cb |-> b]

\* CircuitBreaker.call, up to the invocation of func: the breaker after the
\* OPEN check and whether func is invoked (admitted) or the breaker-open
\* error is raised.
call_admit(b, t) ==
  IF b.state = OPEN
    THEN IF _should_attempt_reset(b, t)
           THEN [admitted |-> TRUE, cb |-> [b EXCEPT !.state = HALF_OPEN]]
           ELSE [admitted |-> FALSE, cb |-> b]
    ELSE [admitted |-> TRUE, cb |-> b]

\* Faulty variant of call_finish: the error of func is replaced by a generic one.
call_finish_wraps_error(b, out, t) ==
  IF out.kind = "return"
    THEN [cb |-> _on_success(b), rec |-> <<"success">>, out |-> out]
    ELSE [cb |-> _on_failure(b, t), rec |-> <<"failure">>, out |-> Raise(Exc("VaultResolverError", 0, "call failed"))]

\* CircuitBreaker.call, after func produced `out` at clock value t: the
\* bookkeeping handlers run (rec), the breaker afterwards, and what call
\* itself returns or raises.
call_finish(b, out, t) ==
  IF out.kind = "return"
    THEN [cb |-> _on_success(b), rec |-> <<"success">>, out |-> out]
    ELSE [cb |-> _on_failure(b, t), rec |-> <<"failure">>, out |-> out]

\* ------------------------------------------------------------- references
\* A path segment: the marker it starts with ("" when none) and the rest.
Seg(prefix, rest) == [prefix |-> prefix, rest |-> rest]
startswith(seg, prefix) == prefix # "" /\ seg.prefix = prefix
\* A query parameter key=value; int is the value int(value) yields, None when
\* int(value) raises ValueError.
Param(key, int) == [key |-> key, int |-> int]
\* A reference string: whether VAULT_URL_PATTERN matches it, the parts of its
\* path split on "/", and its query parameters (None: no "?").
Url(match, path, query) == [match |-> match, path |-> path, query |-> query]

RefDirect == Url(TRUE, <<Seg("ocid1.vaultsecret.", "A")>>, None)
RefNamed == Url(TRUE, <<Seg("ocid1.compartment.", "C"), Seg("", "db")>>, Some(<<Param("version", Some(2))>>))
RefBare == Url(TRUE, <<Seg("", "db")>>, None)
RefBad == Url(TRUE, <<Seg("", "c"), Seg("", "path"), Seg("", "extra")>>, None)
\* A reference whose name is a lone surrogate, as json.loads('"oci-vault://\\udc80"')
\* yields: VAULT_URL_PATTERN matches it, str.encode() does not accept it.
RefUnencodable == Url(TRUE, <<Seg("", "U+DC80")>>, None)
Refs == <<RefDirect, RefNamed, RefBare, RefBad, RefUnencodable>>
\* The identifier list_secrets reports for the secret named by RefNamed.
FoundOcid == Seg("ocid1.vaultsecret.", "N")

\* parse_vault_url, lines 544-555: the version of the query string.
RECURSIVE query_version(_, _)
query_version(params, version_number) ==
  IF params = <<>>
    THEN version_number
    ELSE LET p == Head(params)
         IN query_version(Tail(params), IF p.key = "version" /\ p.int # None THEN p.int ELSE version_number)

NoMatch == <<None, None, None, None>>

\* Faulty variant of parse_vault_url: the version of a secret identifier is dropped.
parse_vault_url_drops_version(url) ==
  IF ~url.match
    THEN NoMatch
    ELSE LET version_number == IF url.query = None THEN None ELSE query_version(url.query[1], None)
             parts == url.path
         IN IF Len(parts) = 1
              THEN IF startswith(parts[1], "ocid1.vaultsecret.")
                     THEN <<Some(parts[1]), None, None, None>>
                     ELSE <<None, None, Some(parts[1]), version_number>>
              ELSE IF Len(parts) = 2
                     THEN <<None, Some(parts[1]), Some(parts[2]), version_number>>
                     ELSE NoMatch

\* parse_vault_url: (secret_ocid, compartment_id, secret_name, version_number)
parse_vault_url(url) ==
  IF ~url.match
    THEN NoMatch
    ELSE LET version_number == IF url.query = None THEN None ELSE query_version(url.query[1], None)
             parts == url.path
         IN IF Len(parts) = 1
              THEN IF startswith(parts[1], "ocid1.vaultsecret.")
                     THEN <<Some(parts[1]), None, None, version_number>>
                     ELSE <<None, None, Some(parts[1]), version_number>>
              ELSE IF Len(parts) = 2
                     THEN <<None, Some(parts[1]), Some(parts[2]), version_number>>
                     ELSE NoMatch

\* Python truthiness of an optional path segment (None and "" are false).
TruthySeg(x) == x # None /\ ~(x[1].prefix = "" /\ x[1].rest = "")

\* ------------------------------------------------------------------ cache
\* cache_key.encode() in get_cache_path (line 586): UTF-8 has no encoding for a
\* surrogate, and the call raises UnicodeEncodeError.
encodable(cache_key) == \A i \in 1..Len(cache_key.path) : cache_key.path[i].rest # "U+DC80"
UnicodeEncodeError == Exc("UnicodeEncodeError", 0, "surrogates not allowed")
\* RefDirect with a version qualifier: "oci-vault://ocid1.vaultsecret.A?version=2".
RefDirectV2 == Url(TRUE, <<Seg("ocid1.vaultsecret.", "A")>>, Some(<<Param("version", Some(2))>>))
\* The strings used as cache keys.
CacheKeys == Refs \o <<RefDirectV2>>

\* Another reference string, one whose SHA-256 digest begins with the same 16
\* hexadecimal digits as that of RefDirect (the file name keeps 64 of the 256
\* bits of the digest, so such strings exist).
RefColliding == Url(TRUE, <<Seg("ocid1.vaultsecret.", "B")>>, None)

\* Faulty variant of get_cache_path: the query string is not part of the key.
get_cache_path_ignores_version(cache_key) ==
  IF cache_key = RefColliding
    THEN CHOOSE i \in 1..Len(CacheKeys) : CacheKeys[i] = RefDirect
    ELSE CHOOSE i \in 1..Len(CacheKeys) :
           /\ CacheKeys[i].path = cache_key.path
           /\ \A j \in 1..(i - 1) : CacheKeys[j].path # cache_key.path

\* get_cache_path: the file of a cache key, <sha256(cache_key)[:16]>.json; the
\* file is determined by the first 16 digits of the digest of the whole
\* string. The digests of the strings of CacheKeys are pairwise distinct in
\* these digits; RefColliding has the file of RefDirect.
get_cache_path(cache_key) ==
  IF cache_key = RefColliding
    THEN CHOOSE i \in 1..Len(CacheKeys) : CacheKeys[i] = RefDirect
    ELSE CHOOSE i \in 1..Len(CacheKeys) : CacheKeys[i] = cache_key
Files == 1..Len(CacheKeys)

\* Contents of a cache file: absent (no file), corrupt (not parseable as
\* JSON), or a JSON object with optional "value" and "cached_at".
NoFile == [kind |-> "absent", value |-> None, cached_at |-> None]
CorruptFile == [kind |-> "corrupt", value |-> None, cached_at |-> None]
JsonFile(value, cached_at) == [kind |-> "json", value |-> value, cached_at |-> cached_at]
\* A path that stat() is not permitted to look at (cache_dir without search
\* permission): Path.exists() passes the PermissionError on, open() fails.
DeniedFile == [kind |-> "denied", value |-> None, cached_at |-> None]
PermissionError == Exc("PermissionError", 13, "Permission denied")

\* get_cached_secret, lines 595-597: what get_cache_path and exists(), both
\* outside the try, raise (None: nothing).
get_cached_secret_raises(cache_key, file) ==
  IF ~encodable(cache_key)
    THEN Some(UnicodeEncodeError)
    ELSE IF file.kind = "denied" THEN Some(PermissionError) ELSE None

\* VaultResolver.metrics (total_fetch_time, a float sum of durations, is left out).
Metrics0 == [secrets_fetched |-> 0, cache_hits |-> 0, cache_misses |-> 0, stale_cache_used |-> 0, retries |-> 0, circuit_breaker_opens |-> 0]

\* Faulty variant of get_cached_secret: an entry aged exactly ttl is stale.
get_cached_secret_stale_at_ttl(file, t, ttl, m) ==
  IF file.kind = "absent"
    THEN [cached |-> None, metrics |-> [m EXCEPT !.cache_misses = @ + 1]]
    ELSE IF file.kind = "corrupt" \/ ~Truthy(file.value)
           THEN [cached |-> None, metrics |-> m]
           ELSE LET cached_at == IF file.cached_at = None THEN 0 ELSE file.cached_at[1]
                    is_stale == (t - cached_at) >= ttl
                IN [cached |-> Some([value |-> file.value[1], is_stale |-> is_stale]),
                    metrics |-> IF is_stale THEN m ELSE [m EXCEPT !.cache_hits = @ + 1]]

\* Faulty variant of get_cached_secret: an entry without "cached_at" is absent.
get_cached_secret_needs_timestamp(file, t, ttl, m) ==
  IF file.kind = "absent"
    THEN [cached |-> None, metrics |-> [m EXCEPT !.cache_misses = @ + 1]]
    ELSE IF file.kind = "corrupt" \/ ~Truthy(file.value) \/ file.cached_at = None
           THEN [cached |-> None, metrics |-> m]
           ELSE LET cached_at == file.cached_at[1]
                    age == t - cached_at
                    is_stale == age > ttl
                IN [cached |-> Some([value |-> file.value[1], is_stale |-> is_stale]),
                    metrics |-> IF is_stale THEN m ELSE [m EXCEPT !.cache_hits = @ + 1]]

\* get_cached_secret at clock value t: the (value, is_stale) pair or None, and
\* the metrics afterwards.
get_cached_secret(file, t, ttl, m) ==
  IF file.kind = "absent"
    THEN [cached |-> None, metrics |-> [m EXCEPT !.cache_misses = @ + 1]]
    ELSE IF file.kind = "corrupt" \/ ~Truthy(file.value)
           THEN [cached |-> None, metrics |-> m]
           ELSE LET cached_at == IF file.cached_at = None THEN 0 ELSE file.cached_at[1]
                    age == t - cached_at
                    is_stale == age > ttl
                IN [cached |-> Some([value |-> file.value[1], is_stale |-> is_stale]),
                    metrics |-> IF is_stale THEN m ELSE [m EXCEPT !.cache_hits = @ + 1]]

\* What the file system does to a cache write: it succeeds, open() fails, the
\* write fails after open() truncated the file, or only chmod fails.
WriteOutcomes == {"ok", "open_error", "dump_error", "chmod_error"}

\* Faulty variant of cache_secret: nothing is written.
cache_secret_skips_write(file, secret_value, t, w) ==
  file

\* Faulty variant of cache_secret: the entry is stamped with time 0.
cache_secret_epoch_stamp(file, secret_value, t, w) ==
  IF w = "open_error" \/ file.kind = "denied"
    THEN file
    ELSE IF w = "dump_error"
           THEN CorruptFile
           ELSE JsonFile(Some(secret_value), Some(0))

\* cache_secret at clock value t: the file afterwards.
cache_secret(file, secret_value, t, w) ==
  IF w = "open_error" \/ file.kind = "denied"
    THEN file
    ELSE IF w = "dump_error"
           THEN CorruptFile
           ELSE JsonFile(Some(secret_value), Some(t))

\* -------------------------------------------------------------- documents
\* Strings that are taken apart (map keys, paths) are sequences of characters.
Digits == <<"0", "1", "2">>
isdigit(s) == s # <<>> /\ \A i \in 1..Len(s) : \E d \in 1..Len(Digits) : s[i] = Digits[d]
DigitValue(c) == (CHOOSE d \in 1..Len(Digits) : Digits[d] = c) - 1
RECURSIVE int(_)
int(s) == IF s = <<>> THEN 0 ELSE 10 * int(SubSeq(s, 1, Len(s) - 1)) + DigitValue(s[Len(s)])

\* A dict key: a string, or an integer (which set_nested_value can introduce).
StrKey(s) == [isint |-> FALSE, s |-> s, n |-> 0]
IntKey(n) == [isint |-> TRUE, s |-> <<>>, n |-> n]
\* Values of a document: a string, a list of values, or a dict, whose items
\* are kept in insertion order.
StrNode(s) == [t |-> "str", s |-> s, items |-> <<>>]
ListNode(items) == [t |-> "list", s |-> "", items |-> items]
Item(k, v) == [k |-> k, v |-> v]
DictNode(items) == [t |-> "dict", s |-> "", items |-> items]

\* Strings VAULT_URL_PATTERN matches, and one it does not match.
DocUrls == {"oci-vault://x", "oci-vault://y"}
VAULT_URL_PATTERN_match(s) == s \in DocUrls
Leaves == {StrNode(s) : s \in DocUrls \cup {"plain"}}
\* Keys of the maps of a document: "a", "0" and "a.b".
Keys == {<<"a">>, <<"0">>, <<"a", ".", "b">>}
SeqsOf(S, n) == UNION {[1..k -> S] : k \in 1..n}
Inner == Leaves \cup {ListNode(l) : l \in SeqsOf(Leaves, MaxListLen)} \cup {DictNode(<<Item(StrKey(k), v)>>) : k \in Keys, v \in Leaves}
\* The documents: {} and the dicts of up to MaxEntries items with distinct keys.
Configs ==
  {DictNode(<<>>)} \cup
  {DictNode(items) : items \in {l \in SeqsOf({Item(StrKey(k), v) : k \in Keys, v \in Inner}, MaxEntries) :
                                  \A i, j \in 1..Len(l) : i # j => l[i].k # l[j].k}}

\* dict.update on a dict of path -> url, kept as a sequence of entries.
RECURSIVE dict_update(_, _)
dict_update(references, more) ==
  IF more = <<>>
    THEN references
    ELSE LET e == Head(more)
             hit == {i \in 1..Len(references) : references[i].path = e.path}
         IN dict_update(IF hit = {} THEN Append(references, e)
                                    ELSE [references EXCEPT ![CHOOSE i \in hit : TRUE] = e],
                        Tail(more))

\* find_vault_references(obj, path): the entries path -> url, in traversal order.
RECURSIVE find_vault_references(_, _)
RECURSIVE find_in_dict(_, _, _)
RECURSIVE find_in_list(_, _, _, _)
find_in_dict(items, path, references) ==
  IF items = <<>>
    THEN references
    ELSE LET key == Head(items).k.s
             current_path == IF path # <<>> THEN path \o <<".">> \o key ELSE key
         IN find_in_dict(Tail(items), path, dict_update(references, find_vault_references(Head(items).v, current_path)))
find_in_list(items, path, idx, references) ==
  IF items = <<>>
    THEN references
    ELSE LET current_path == path \o <<"[", Digits[idx + 1], "]">>
         IN find_in_list(Tail(items), path, idx + 1, dict_update(references, find_vault_references(Head(items), current_path)))
find_vault_references(obj, path) ==
  IF obj.t = "dict"
    THEN find_in_dict(obj.items, path, <<>>)
    ELSE IF obj.t = "list"
           THEN find_in_list(obj.items, path, 0, <<>>)
           ELSE IF VAULT_URL_PATTERN_match(obj.s) THEN <<[path |-> path, url |-> obj.s]>> ELSE <<>>

\* re.split(r"\.|\[|\]", path) without the empty strings (lines 956-957).
RECURSIVE re_split(_, _, _)
re_split(path, part, parts) ==
  IF path = <<>>
    THEN IF part = <<>> THEN parts ELSE Append(parts, part)
    ELSE IF Head(path) \in {".", "[", "]"}
           THEN re_split(Tail(path), <<>>, IF part = <<>> THEN parts ELSE Append(parts, part))
           ELSE re_split(Tail(path), Append(part, Head(path)), parts)

\* Indices of the items of a dict with the given key, and d[key] = v.
lookup(items, key) == {i \in 1..Len(items) : items[i].k = key}
setitem(items, key, v) ==
  IF lookup(items, key) = {}
    THEN Append(items, Item(key, v))
    ELSE [items EXCEPT ![CHOOSE i \in lookup(items, key) : TRUE].v = v]

\* The object after a step of set_nested_value, and the exception it raised.
Ok(obj) == [obj |-> obj, exc |-> None]
Err(obj, type) == [obj |-> obj, exc |-> Some(Exc(type, 0, ""))]

\* Lines 959-978 of set_nested_value from `current` on, with the parts left.
\* (Indexing a str yields a str, and the assignment that follows raises
\* TypeError; the strings of Leaves are longer than every index used.)
RECURSIVE assign(_, _, _)
assign(current, parts, value) ==
  LET part == Head(parts)
  IN IF Len(parts) = 1
       THEN IF isdigit(part)
              THEN IF current.t = "list"
                     THEN IF int(part) < Len(current.items)
                            THEN Ok(ListNode([current.items EXCEPT ![int(part) + 1] = value]))
                            ELSE Err(current, "IndexError")
                     ELSE IF current.t = "dict"
                            THEN Ok(DictNode(setitem(current.items, IntKey(int(part)), value)))
                            ELSE Err(current, "TypeError")
              ELSE IF current.t = "dict"
                     THEN Ok(DictNode(setitem(current.items, StrKey(part), value)))
                     ELSE Err(current, "TypeError")
       ELSE IF isdigit(part)
              THEN IF current.t = "list"
                     THEN IF int(part) < Len(current.items)
                            THEN LET sub == assign(current.items[int(part) + 1], Tail(parts), value)
                                 IN [obj |-> ListNode([current.items EXCEPT ![int(part) + 1] = sub.obj]), exc |-> sub.exc]
                            ELSE Err(current, "IndexError")
                     ELSE IF current.t = "dict"
                            THEN IF lookup(current.items, IntKey(int(part))) = {}
                                   THEN Err(current, "KeyError")
                                   ELSE LET i == CHOOSE i \in lookup(current.items, IntKey(int(part))) : TRUE
                                            sub == assign(current.items[i].v, Tail(parts), value)
                                        IN [obj |-> DictNode([current.items EXCEPT ![i].v = sub.obj]), exc |-> sub.exc]
                            ELSE Err(current, "TypeError")
              ELSE IF current.t = "dict"
                     THEN LET items == IF lookup(current.items, StrKey(part)) = {}
                                         THEN Append(current.items, Item(StrKey(part), IF isdigit(parts[2]) THEN ListNode(<<>>) ELSE DictNode(<<>>)))
                                         ELSE current.items
                              i == CHOOSE i \in lookup(items, StrKey(part)) : TRUE
                              sub == assign(items[i].v, Tail(parts), value)
                          IN [obj |-> DictNode([items EXCEPT ![i].v = sub.obj]), exc |-> sub.exc]
                     ELSE Err(current, "TypeError")

\* set_nested_value(obj, path, value): obj afterwards (it is changed in place)
\* and the exception raised, if any. For an empty path obj is not touched.
set_nested_value(obj, path, value) ==
  IF path = <<>>
    THEN Ok(obj)
    ELSE LET parts == re_split(path, <<>>, <<>>)
         IN IF parts = <<>> THEN Err(obj, "IndexError") ELSE assign(obj, parts, value)

\* resolve_config, lines 1044-1052: the resolved values are applied in the
\* order of references.items(); a reference that resolved to None is skipped.
RECURSIVE apply_resolved(_, _, _)
apply_resolved(config, references, resolved_secrets) ==
  IF references = <<>>
    THEN Ok(config)
    ELSE LET secret_value == resolved_secrets[Head(references).url]
         IN IF secret_value # None
              THEN LET r == set_nested_value(config, Head(references).path, StrNode(secret_value[1]))
                   IN IF r.exc # None THEN r ELSE apply_resolved(r.obj, Tail(references), resolved_secrets)
              ELSE apply_resolved(config, Tail(references), resolved_secrets)

\* resolve_config(config), given what fetch_secrets_parallel returns for the
\* references (lines 1019-1065); validate_config rejects an empty dict.
resolve_config(config, resolved_secrets) ==
  IF config.items = <<>>
    THEN Err(config, "ConfigurationError")
    ELSE apply_resolved(config, find_vault_references(config, <<>>), resolved_secrets)

\* -------------------------------------------------------- reference strings
\* A reference string is written as the sequence of its pieces: the scheme,
\* the secret-identifier marker in lower and in upper case, a name, "/", "?",
\* "&", "=", the word "version", the digit "2".
SCHEME == "oci-vault://"
MARKER == "ocid1.vaultsecret."
PathPieces == {MARKER, "OCID1.VAULTSECRET.", "db", "/"}
QueryPieces == {"version", "=", "2", "&"}
\* The strings parse_vault_url is called with: with or without the scheme, a
\* path, and, after "?", a query string.
Prefixes == {<<>>, <<SCHEME>>}
Paths == {<<>>} \cup SeqsOf(PathPieces, MaxPathLen)
Queries == {<<>>} \cup {<<"?">> \o q : q \in {<<>>} \cup SeqsOf(QueryPieces, MaxQueryLen)}

\* `piece in s`
contains(s, piece) == \E i \in 1..Len(s) : s[i] = piece
\* s.split(sep, maxsplit); maxsplit = -1: no limit. `part` is the part being read.
RECURSIVE split(_, _, _, _)
split(s, sep, maxsplit, part) ==
  IF s = <<>>
    THEN <<part>>
    ELSE IF Head(s) = sep /\ maxsplit # 0
           THEN <<part>> \o split(Tail(s), sep, maxsplit - 1, <<>>)
           ELSE split(Tail(s), sep, maxsplit, Append(part, Head(s)))
\* The text of a sequence of pieces.
RECURSIVE join(_)
join(pieces) == IF pieces = <<>> THEN "" ELSE Head(pieces) \o join(Tail(pieces))
\* A part of the path as a segment: the marker it starts with, and the rest.
segment(part) ==
  IF part # <<>> /\ Head(part) = MARKER
    THEN Seg(MARKER, join(Tail(part)))
    ELSE Seg("", join(part))
\* The parameters of the query string that contain "=", as key and int(value)
\* (lines 548-555); int(value) raises ValueError unless value is a number.
RECURSIVE query_params(_)
query_params(params) ==
  IF params = <<>>
    THEN <<>>
    ELSE LET param == Head(params)
             kv == split(param, "=", 1, <<>>)
         IN IF contains(param, "=")
              THEN <<Param(join(kv[1]), IF isdigit(kv[2]) THEN Some(int(kv[2])) ELSE None)>> \o query_params(Tail(params))
              ELSE query_params(Tail(params))

\* parse_vault_url, lines 537-557: how the string is taken apart. The pattern
\* ^oci-vault://(.+)$ wants the scheme and at least one character after it.
read_url(url) ==
  IF ~(Len(url) >= 2 /\ Head(url) = SCHEME)
    THEN Url(FALSE, <<>>, None)
    ELSE LET group1 == Tail(url)
             halves == split(group1, "?", 1, <<>>)
             path == halves[1]
             parts == split(path, "/", -1, <<>>)
         IN Url(TRUE,
                [i \in 1..Len(parts) |-> segment(parts[i])],
                IF contains(group1, "?") THEN Some(query_params(split(halves[2], "&", -1, <<>>))) ELSE None)

\* ---------------------------------------------------------------- fetching
\* A function returning None.
ReturnNone == [kind |-> "return", val |-> None, exc |-> None]
VaultResolverErrors == {"VaultResolverError", "AuthenticationError", "SecretNotFoundError", "PermissionDeniedError"}

\* What one get_secret_bundle call plus decoding does.
RemoteOutcomes == FuncOutcomes
\* What list_secrets does for find_secret_by_name.
LookupOutcomes == {"found", "not_listed", "service_error", "exception"}

\* ------------------------------------------------------ retry_with_backoff
\* An exception that does not derive from Exception.
KeyboardInterrupt == Exc("KeyboardInterrupt", 0, "")
\* retryable_exceptions, a one-class tuple: (Exception,), the default, or
\* (oci.exceptions.ServiceError,).
RetryableClasses == {"Exception", "ServiceError"}
\* What `except retryable_exceptions` catches.
isinstance(e, cls) == IF cls = "Exception" THEN e.type # "KeyboardInterrupt" ELSE e.type = cls
\* The class _fetch_secret_with_retry designates (line 664).
FETCH_RETRYABLE == "ServiceError"
DEFAULT_RETRY_BACKOFF_BASE == 2

\* Outcomes of a function wrapped by retry_with_backoff.
WrappedOutcomes == FuncOutcomes \cup {Raise(KeyboardInterrupt)}

\* One wrapper(*args) call of a function decorated with
\* retry_with_backoff(max_retries, backoff_base, jitter, retryable_exceptions):
\* the loop variable, last_exception, the outcomes func had so far, the delays
\* slept (before jitter scales them by 0.75..1.25) and what wrapper returned or
\* raised (None while it runs).
wrapper(max_retries, retryable_exceptions) ==
  [max_retries |-> max_retries, retryable_exceptions |-> retryable_exceptions,
   attempt |-> 0, last_exception |-> None, hist |-> <<>>, slept |-> <<>>, out |-> None]

\* Faulty variant of wrapper_attempt: at exhaustion the first error is raised.
wrapper_attempt_raises_first(w, out) ==
  LET w1 == [w EXCEPT !.hist = Append(@, out)]
  IN IF out.kind = "return" \/ ~isinstance(out.exc[1], w.retryable_exceptions)
       THEN [w1 EXCEPT !.out = Some(out)]
       ELSE IF w.attempt >= w.max_retries
              THEN [w1 EXCEPT !.last_exception = out.exc, !.out = Some(w1.hist[1])]
              ELSE [w1 EXCEPT !.last_exception = out.exc, !.slept = Append(@, DEFAULT_RETRY_BACKOFF_BASE * 2^w.attempt), !.attempt = @ + 1]

\* Faulty variant of wrapper_attempt: every exception is taken as retryable.
wrapper_attempt_retries_all(w, out) ==
  LET w1 == [w EXCEPT !.hist = Append(@, out)]
  IN IF out.kind = "return"
       THEN [w1 EXCEPT !.out = Some(out)]
       ELSE IF w.attempt >= w.max_retries
              THEN [w1 EXCEPT !.last_exception = out.exc, !.out = Some(Raise(out.exc[1]))]
              ELSE [w1 EXCEPT !.last_exception = out.exc, !.slept = Append(@, DEFAULT_RETRY_BACKOFF_BASE * 2^w.attempt), !.attempt = @ + 1]

\* One pass of the loop of wrapper (lines 252-271, and 273-275 after the
\* break): func is invoked and has outcome `out`.
wrapper_attempt(w, out) ==
  LET w1 == [w EXCEPT !.hist = Append(@, out)]
  IN IF out.kind = "return" \/ ~isinstance(out.exc[1], w.retryable_exceptions)
       THEN [w1 EXCEPT !.out = Some(out)]
       ELSE IF w.attempt >= w.max_retries
              THEN [w1 EXCEPT !.last_exception = out.exc, !.out = Some(Raise(out.exc[1]))]
              ELSE [w1 EXCEPT !.last_exception = out.exc, !.slept = Append(@, DEFAULT_RETRY_BACKOFF_BASE * 2^w.attempt), !.attempt = @ + 1]

\* No decorated function is being called.
RetryIdle == wrapper(0, "Exception")
\* A task of fetch_secrets_parallel, fetch_one(url), before its thread runs:
\* where it is in resolve_secret, the counter it is about to add 1 to (ctr),
\* the value it read from that counter (tmp), where it goes after the store
\* (next), and resolve_secret's locals and result.
Task(url) == [pc |-> "start", url |-> url, cached |-> None, ctr |-> "", tmp |-> None, next |-> "",
              listed |-> None, rejected |-> FALSE, fetched |-> None, value |-> None, raised |-> None]
Counters == DOMAIN Metrics0
\* fetch_secrets_parallel was not called.
ParIdle == [pc |-> "idle", vault_urls |-> <<>>, world |-> [f \in Files |-> ReturnNone], tasks |-> <<>>,
            incs |-> [c \in Counters |-> 0], fetches |-> [f \in Files |-> 0], out |-> None,
            mode |-> "parallel", sequential |-> None]
\* resolve_config was not called.
DocIdle == [pc |-> "idle", given |-> DictNode(<<>>), resolved_secrets |-> [u \in DocUrls |-> None], config |-> DictNode(<<>>), raised |-> None]
\* parse_vault_url was not called.
ParseIdle == [url |-> None, out |-> None]
\* No thread is using the cache.
WritersIdle == [pc |-> "idle", bytes |-> None, threads |-> <<>>]
\* No direct call of the cache methods was made.
CacheOpIdle == [op |-> "none", key |-> None, at |-> 0, ret |-> None]

\* retry_with_backoff inside _fetch_secret_with_retry, one pass of the loop at
\* `attempt` with the outcome of _fetch: retry, or finish with the outcome.
retry_again(out, attempt, max_retries) ==
  /\ out.kind = "raise"
  /\ isinstance(out.exc[1], FETCH_RETRYABLE)
  /\ attempt < max_retries

\* _fetch_secret_with_retry, lines 680-686: metrics after a successful _fetch().
retries_tracked(m, initial_retries) ==
  LET retries_used == m.retries - initial_retries
  IN IF retries_used > 0 THEN [m EXCEPT !.retries = @ + retries_used] ELSE m

\* Faulty variant of fetch_secret_by_ocid: rejections are not counted.
fetch_secret_by_ocid_uncounted(out, m) ==
  IF out.kind = "return"
    THEN [out |-> out, metrics |-> [m EXCEPT !.secrets_fetched = @ + 1]]
    ELSE LET e == out.exc[1]
         IN IF e.type = "ServiceError"
              THEN [out |-> Raise(Exc("VaultResolverError", 0, "OCI API error")), metrics |-> m]
              ELSE IF e.type \in VaultResolverErrors
                     THEN [out |-> out, metrics |-> m]
                     ELSE [out |-> ReturnNone, metrics |-> m]

\* Faulty variant of fetch_secret_by_ocid: status 401 is reported as 403 is.
fetch_secret_by_ocid_confuses_401(out, m) ==
  IF out.kind = "return"
    THEN [out |-> out, metrics |-> [m EXCEPT !.secrets_fetched = @ + 1]]
    ELSE LET e == out.exc[1]
         IN IF e.type = "ServiceError"
              THEN [out |-> Raise(IF e.status = 404 THEN Exc("SecretNotFoundError", 0, "Secret not found")
                                  ELSE IF e.status \in {401, 403} THEN Exc("PermissionDeniedError", 0, "Permission denied")
                                  ELSE Exc("VaultResolverError", 0, "OCI API error")),
                    metrics |-> m]
              ELSE IF e.type \in VaultResolverErrors
                     THEN [out |-> out,
                           metrics |-> IF e.msg = "Circuit breaker is OPEN"
                                         THEN [m EXCEPT !.circuit_breaker_opens = @ + 1]
                                         ELSE m]
                     ELSE [out |-> ReturnNone, metrics |-> m]

\* fetch_secret_by_ocid, lines 718-751: from the outcome of the (guarded)
\* _fetch_secret_with_retry to its own outcome and the metrics.
fetch_secret_by_ocid(out, m) ==
  IF out.kind = "return"
    THEN [out |-> out, metrics |-> [m EXCEPT !.secrets_fetched = @ + 1]]
    ELSE LET e == out.exc[1]
         IN IF e.type = "ServiceError"
              THEN [out |-> Raise(IF e.status = 404 THEN Exc("SecretNotFoundError", 0, "Secret not found")
                                  ELSE IF e.status = 401 THEN Exc("AuthenticationError", 0, "Authentication failed")
                                  ELSE IF e.status = 403 THEN Exc("PermissionDeniedError", 0, "Permission denied")
                                  ELSE Exc("VaultResolverError", 0, "OCI API error")),
                    metrics |-> m]
              ELSE IF e.type \in VaultResolverErrors
                     THEN [out |-> out,
                           metrics |-> IF e.msg = "Circuit breaker is OPEN"
                                         THEN [m EXCEPT !.circuit_breaker_opens = @ + 1]
                                         ELSE m]
                     ELSE [out |-> ReturnNone, metrics |-> m]

\* find_secret_by_name: the identifier or None.
find_secret_by_name(listed) == IF listed = "found" THEN Some(FoundOcid) ELSE None

\* Faulty variant of _try_stale_cache_fallback: the use is not counted.
_try_stale_cache_fallback_uncounted(cached, m) ==
  IF cached # None
    THEN [value |-> Some(cached[1].value), metrics |-> m]
    ELSE [value |-> None, metrics |-> m]

\* _try_stale_cache_fallback
_try_stale_cache_fallback(cached, m) ==
  IF cached # None
    THEN [value |-> Some(cached[1].value), metrics |-> [m EXCEPT !.stale_cache_used = @ + 1]]
    ELSE [value |-> None, metrics |-> m]

\* Faulty variant of resolve_after_fetch: a failed refresh removes the entry.
resolve_after_fetch_drops_entry(fetched, cached, file, t, w, m) ==
  IF fetched.kind = "return" /\ Truthy(fetched.val)
    THEN [result |-> fetched.val, file |-> cache_secret(file, fetched.val[1], t, w), metrics |-> m, wrote |-> Some(w)]
    ELSE LET fb == _try_stale_cache_fallback(cached, m)
         IN [result |-> fb.value, file |-> NoFile, metrics |-> fb.metrics, wrote |-> None]

\* Faulty variant of resolve_after_fetch: when the cache write fails, the
\* stale entry is returned in place of the value fetched.
resolve_after_fetch_needs_write(fetched, cached, file, t, w, m) ==
  IF fetched.kind = "return" /\ Truthy(fetched.val)
    THEN [result |-> IF w # "ok" /\ cached # None THEN Some(cached[1].value) ELSE fetched.val,
          file |-> cache_secret(file, fetched.val[1], t, w), metrics |-> m, wrote |-> Some(w)]
    ELSE LET fb == _try_stale_cache_fallback(cached, m)
         IN [result |-> fb.value, file |-> file, metrics |-> fb.metrics, wrote |-> None]

\* Faulty variant of resolve_after_fetch: a cached value, stale as it is, is
\* preferred to the value fetched.
resolve_after_fetch_prefers_stale(fetched, cached, file, t, w, m) ==
  IF fetched.kind = "return" /\ Truthy(fetched.val)
    THEN [result |-> IF cached # None THEN Some(cached[1].value) ELSE fetched.val,
          file |-> cache_secret(file, fetched.val[1], t, w), metrics |-> m, wrote |-> Some(w)]
    ELSE LET fb == _try_stale_cache_fallback(cached, m)
         IN [result |-> fb.value, file |-> file, metrics |-> fb.metrics, wrote |-> None]

\* Faulty variant of resolve_after_fetch: an empty value counts as a value.
resolve_after_fetch_accepts_empty(fetched, cached, file, t, w, m) ==
  IF fetched.kind = "return" /\ fetched.val # None
    THEN [result |-> fetched.val, file |-> cache_secret(file, fetched.val[1], t, w), metrics |-> m, wrote |-> Some(w)]
    ELSE LET fb == _try_stale_cache_fallback(cached, m)
         IN [result |-> fb.value, file |-> file, metrics |-> fb.metrics, wrote |-> None]

\* resolve_secret, lines 841-858: from the outcome of fetch_secret_by_ocid to
\* the result, the cache file and the metrics; w is what the file system does
\* if the cache is written.
resolve_after_fetch(fetched, cached, file, t, w, m) ==
  IF fetched.kind = "return" /\ Truthy(fetched.val)
    THEN [result |-> fetched.val, file |-> cache_secret(file, fetched.val[1], t, w), metrics |-> m, wrote |-> Some(w)]
    ELSE LET fb == _try_stale_cache_fallback(cached, m)
         IN [result |-> fb.value, file |-> file, metrics |-> fb.metrics, wrote |-> None]

\* ------------------------------------------------------------------ state
VARIABLES
  now,        \* time.time()
  cb,         \* the CircuitBreaker object (configuration and counters)
  cbpc,       \* position of the current CircuitBreaker.call: idle, running (func in progress), returned
  cb0,        \* the breaker as it was when the current call began
  tCall,      \* the clock when the current call began
  admitted,   \* the current call got past the OPEN check
  invoked,    \* number of times the current call invoked func
  funcOut,    \* what func did in the current call (None: not finished / not invoked)
  callOut,    \* what the current call returned or raised (None: not finished)
  rec,        \* bookkeeping handlers run by the current call
  consecFail, \* history: failed admitted calls since the last successful one
  hoSucc,     \* history: successful calls in a row since the breaker entered HALF_OPEN
  rcfg,       \* VaultResolver configuration: ttl, max_retries, whether circuit_breaker is set, default_compartment_id
  cache,      \* the files of cache_dir
  metrics,    \* VaultResolver.metrics
  res,        \* the resolve_secret call in progress: position and locals
  snap,       \* the clock, cache, metrics, breaker and `last` when that call began
  remote,     \* remote operations made by that call
  last,       \* per cache file: the value, time and cache write of the latest resolve_secret of its reference, if that one fetched a value
  calls,      \* number of resolve_secret calls begun
  retry,      \* the wrapper call of a function decorated with retry_with_backoff
  cacheop,    \* the latest direct call of get_cached_secret / cache_secret
  doc,        \* resolve_config: the document given, what the references resolved to, the document afterwards
  par,        \* fetch_secrets_parallel: the list given, the tasks running resolve_secret in executor threads, the result
  pv,         \* the latest parse_vault_url call: the string given and the tuple returned
  wr          \* threads calling cache_secret / get_cached_secret for one key at the same time, and the bytes of its file

cbvars == <<cb, cbpc, cb0, tCall, admitted, invoked, funcOut, callOut, rec, consecFail, hoSucc>>
rvars == <<rcfg, cache, metrics, res, snap, remote, last, calls>>
ovars == <<retry, cacheop, doc, par, pv, wr>>
vars == <<now, cb, cbpc, cb0, tCall, admitted, invoked, funcOut, callOut, rec, consecFail, hoSucc, rcfg, cache, metrics, res, snap, remote, last, calls, retry, cacheop, doc, par, pv, wr>>

\* The call-local variables before / between calls.
CallIdle ==
  /\ cbpc = "idle"
  /\ admitted = FALSE
  /\ invoked = 0
  /\ funcOut = None
  /\ callOut = None
  /\ rec = <<>>

\* resolve_secret's locals when no call is in progress.
ResIdle == [pc |-> "idle", url |-> None, cached |-> None, secret_ocid |-> None, version_number |-> None, attempt |-> 0, initial_retries |-> 0, listed |-> None, fetched |-> None, wrote |-> None, result |-> None, raised |-> None]
Remote0 == [list_secrets |-> 0, get_secret_bundle |-> 0, fetches |-> 0]
\* VaultResolver.__init__ with enable_circuit_breaker = False: no breaker object.
NoBreaker == [failure_threshold |-> 0, recovery_timeout |-> 0, success_threshold |-> 0, failure_count |-> 0, success_count |-> 0, last_failure_time |-> None, state |-> "none"]
\* VaultResolver.__init__: recovery_timeout = 60.0 (one clock unit is 60 s) and success_threshold = 2.
RECOVERY_TIMEOUT == 1
SUCCESS_THRESHOLD == 2

\* cache_dir is created with exist_ok, so it keeps what an earlier run left in
\* it: nothing, or an entry for the first reference written at the clock's origin.
CacheDirs == {[f \in Files |-> NoFile],
              [f \in Files |-> IF f = 1 THEN JsonFile(Some("v1"), Some(0)) ELSE NoFile]}

\* cache_dir as the methods may find it when called directly: empty, or with
\* the file of the first reference not accessible, without "value", or
\* without "cached_at".
OldFiles == {NoFile, DeniedFile, JsonFile(None, Some(0)), JsonFile(Some("v1"), None)}
OldDirs == {[f \in Files |-> IF f = 1 THEN x ELSE NoFile] : x \in OldFiles}

\* A resolver that is constructed and not used.
ResolverUnused ==
  /\ metrics = Metrics0
  /\ res = ResIdle
  /\ last = [f \in Files |-> None]
  /\ snap = [t |-> now, cache |-> cache, metrics |-> metrics, cb |-> cb, last |-> last]
  /\ remote = Remote0
  /\ calls = 0

\* ------------------------------------------ CircuitBreaker used on its own
InitCB ==
  /\ now = 0
  /\ cb \in {CircuitBreaker(ft, rt, st) : ft \in 1..MaxFailureThreshold, rt \in 1..MaxRecoveryTimeout, st \in 1..MaxSuccessThreshold}
  /\ cb0 = cb
  /\ tCall = 0
  /\ CallIdle
  /\ consecFail = 0
  /\ hoSucc = 0
  /\ rcfg = [ttl |-> Ttl, max_retries |-> 0, cb_enabled |-> TRUE, default_compartment_id |-> None]
  /\ cache = [f \in Files |-> NoFile]
  /\ ResolverUnused
  /\ retry = RetryIdle
  /\ cacheop = CacheOpIdle
  /\ pv = ParseIdle
  /\ wr = WritersIdle
  /\ doc = DocIdle
  /\ par = ParIdle

\* time passes
Tick ==
  /\ now < MaxTime
  /\ now' = now + 1
  /\ UNCHANGED <<cbvars, rvars, ovars>>

\* CircuitBreaker.call begins, lines 180-187.
BreakerAdmit ==
  /\ LET a == call_admit(cb, now)
     IN /\ cb' = a.cb
        /\ admitted' = a.admitted
        /\ cbpc' = IF a.admitted THEN "running" ELSE "returned"
        /\ callOut' = IF a.admitted THEN None ELSE Some(Raise(BreakerOpenError))
        /\ hoSucc' = IF cb.state = OPEN /\ a.admitted THEN 0 ELSE hoSucc
  /\ cb0' = cb
  /\ tCall' = now
  /\ invoked' = 0
  /\ funcOut' = None
  /\ rec' = <<>>
  /\ UNCHANGED consecFail

\* func produced `out` and CircuitBreaker.call finishes, lines 189-195.
BreakerFinish(out) ==
  /\ LET f == call_finish(cb, out, now)
     IN /\ cb' = f.cb
        /\ rec' = f.rec
        /\ callOut' = Some(f.out)
  /\ funcOut' = Some(out)
  /\ consecFail' = IF out.kind = "return" THEN 0 ELSE consecFail + 1
  /\ hoSucc' = IF out.kind = "return" /\ cb.state = HALF_OPEN THEN hoSucc + 1 ELSE 0
  /\ invoked' = invoked + 1
  /\ cbpc' = "returned"
  /\ UNCHANGED <<cb0, tCall, admitted>>

\* The caller has the outcome of call; the next call may begin.
BreakerIdle ==
  /\ cbpc' = "idle"
  /\ admitted' = FALSE
  /\ invoked' = 0
  /\ funcOut' = None
  /\ callOut' = None
  /\ rec' = <<>>
  /\ cb0' = cb
  /\ tCall' = now
  /\ UNCHANGED <<cb, consecFail, hoSucc>>

\* cb.call(func) begins
CallEnter ==
  /\ cbpc = "idle"
  /\ BreakerAdmit
  /\ UNCHANGED <<now, ovars, rvars>>

\* func returns or raises, and call finishes
FuncReturn ==
  /\ cbpc = "running"
  /\ \E out \in FuncOutcomes : BreakerFinish(out)
  /\ UNCHANGED <<now, ovars, rvars>>

\* call returned or raised to its caller
CallDone ==
  /\ cbpc = "returned"
  /\ BreakerIdle
  /\ UNCHANGED <<now, ovars, rvars>>

NextCB == CallEnter \/ FuncReturn \/ CallDone \/ Tick

SpecCB == InitCB /\ [][NextCB]_vars

\* --------------------------------- CircuitBreaker while the remote recovers
\* The clock runs recovery_timeout beyond the last moment a call may fail.
Horizon == MaxTime + MaxRecoveryTimeout

TickRecover ==
  /\ now < Horizon
  /\ now' = now + 1
  /\ UNCHANGED <<cbvars, rvars, ovars>>

\* func returns or raises, and call finishes (lines 189-195). Once the
\* breaker has opened the remote is healthy again: func fails only in a call
\* made while Closed, and no later than MaxTime.
FuncReturnRecover ==
  /\ cbpc = "running"
  /\ \E out \in FuncOutcomes :
       /\ out.kind = "raise" => (cb.state = CLOSED /\ now <= MaxTime)
       /\ BreakerFinish(out)
  /\ UNCHANGED <<now, ovars, rvars>>

NextRecover == CallEnter \/ FuncReturnRecover \/ CallDone \/ TickRecover

\* Time keeps advancing and calls keep being made and completed.
SpecRecover ==
  /\ InitCB
  /\ [][NextRecover]_vars
  /\ WF_vars(TickRecover)
  /\ WF_vars(CallEnter)
  /\ WF_vars(FuncReturnRecover)
  /\ WF_vars(CallDone)

\* ---------------------------------------------------------- VaultResolver
Init ==
  /\ now = 0
  /\ rcfg \in {[ttl |-> Ttl, max_retries |-> r, cb_enabled |-> e, default_compartment_id |-> None] : r \in {MaxRetries}, e \in BOOLEAN}
  /\ cb \in IF rcfg.cb_enabled
              THEN {CircuitBreaker(ft, RECOVERY_TIMEOUT, SUCCESS_THRESHOLD) : ft \in 1..MaxBreakerThreshold}
              ELSE {NoBreaker}
  /\ cb0 = cb
  /\ tCall = 0
  /\ CallIdle
  /\ consecFail = 0
  /\ hoSucc = 0
  /\ cache \in CacheDirs
  /\ ResolverUnused
  /\ retry = RetryIdle
  /\ cacheop = CacheOpIdle
  /\ pv = ParseIdle
  /\ wr = WritersIdle
  /\ doc = DocIdle
  /\ par = ParIdle

\* resolve_secret finishes with `result` (lines 816, 823, 829, 838, 846-858).
Finish(r, result, m, wrote) ==
  /\ res' = [r EXCEPT !.pc = "done", !.result = result, !.wrote = wrote]
  /\ metrics' = m
  /\ last' = [last EXCEPT ![get_cache_path(r.url[1])] =
                IF wrote = None
                  THEN None
                  ELSE Some([value |-> result[1], at |-> now, written |-> wrote[1] \in {"ok", "chmod_error"},
                             cache_key |-> r.url[1]])]

\* resolve_secret(vault_url) begins, lines 809-838: cache lookup, parsing, and
\* the choice between returning, raising, name lookup and fetching.
ResolveStart ==
  /\ res.pc = "idle"
  /\ calls < MaxCalls
  /\ \E i \in 1..Len(Refs) :
       LET vault_url == Refs[i]
           g == get_cached_secret(cache[get_cache_path(vault_url)], now, rcfg.ttl, metrics)
           parsed == parse_vault_url(vault_url)
           r == [res EXCEPT !.url = Some(vault_url), !.cached = g.cached, !.secret_ocid = parsed[1], !.version_number = parsed[4]]
           x == get_cached_secret_raises(vault_url, cache[get_cache_path(vault_url)])
       IN IF x # None
            \* get_cached_secret calls get_cache_path and exists() before its try
            THEN /\ res' = [res EXCEPT !.pc = "done", !.url = Some(vault_url), !.raised = x]
                 /\ metrics' = metrics
                 /\ last' = last
            ELSE IF g.cached # None /\ ~g.cached[1].is_stale
            THEN Finish(r, Some(g.cached[1].value), g.metrics, None)
            ELSE IF ~TruthySeg(parsed[1]) /\ ~TruthySeg(parsed[3])
                   THEN Finish(r, None, g.metrics, None)
                   ELSE IF ~TruthySeg(parsed[1])
                          THEN IF ~TruthySeg(parsed[2])
                                 THEN Finish(r, None, g.metrics, None)
                                 ELSE /\ res' = [r EXCEPT !.pc = "lookup"]
                                      /\ metrics' = g.metrics
                                      /\ last' = last
                          ELSE /\ res' = [r EXCEPT !.pc = "fetch"]
                               /\ metrics' = g.metrics
                               /\ last' = last
  /\ snap' = [t |-> now, cache |-> cache, metrics |-> metrics, cb |-> cb, last |-> last]
  /\ remote' = Remote0
  /\ calls' = calls + 1
  /\ UNCHANGED <<now, ovars, cbvars, rcfg, cache>>

\* find_secret_by_name (lines 753-779) and lines 833-838 of resolve_secret.
NameLookup ==
  /\ res.pc = "lookup"
  /\ \E listed \in LookupOutcomes :
       LET secret_ocid == find_secret_by_name(listed)
           r == [res EXCEPT !.listed = Some(listed), !.secret_ocid = secret_ocid]
           fb == _try_stale_cache_fallback(res.cached, metrics)
       IN IF ~TruthySeg(secret_ocid)
            THEN Finish(r, fb.value, fb.metrics, None)
            ELSE /\ res' = [r EXCEPT !.pc = "fetch"]
                 /\ metrics' = metrics
                 /\ last' = last
  /\ remote' = [remote EXCEPT !.list_secrets = @ + 1]
  /\ UNCHANGED <<now, ovars, cbvars, rcfg, cache, snap, calls>>

\* fetch_secret_by_ocid begins (lines 701-716): with a breaker, the call is
\* admitted or rejected; a rejection is handled at lines 739-746 and 852-855.
FetchEnter ==
  /\ res.pc = "fetch"
  /\ remote' = [remote EXCEPT !.fetches = @ + 1]
  /\ IF rcfg.cb_enabled
       THEN /\ BreakerAdmit
            /\ IF call_admit(cb, now).admitted
                 THEN /\ res' = [res EXCEPT !.pc = "attempt", !.attempt = 0, !.initial_retries = metrics.retries]
                      /\ metrics' = metrics
                      /\ last' = last
                 ELSE LET f == fetch_secret_by_ocid(Raise(BreakerOpenError), metrics)
                          t == resolve_after_fetch(f.out, res.cached, NoFile, now, "ok", f.metrics)
                      IN Finish([res EXCEPT !.fetched = Some(f.out)], t.result, t.metrics, None)
       ELSE /\ res' = [res EXCEPT !.pc = "attempt", !.attempt = 0, !.initial_retries = metrics.retries]
            /\ metrics' = metrics
            /\ last' = last
            /\ UNCHANGED cbvars
  /\ UNCHANGED <<now, ovars, rcfg, cache, snap, calls>>

\* Faulty variant of AttemptRetry: the breaker wraps each get_secret_bundle
\* call, so every failed attempt is recorded as a breaker failure.
AttemptRetry_inside_breaker ==
  /\ res.pc = "attempt"
  /\ \E out \in RemoteOutcomes :
       /\ retry_again(out, res.attempt, rcfg.max_retries)
       /\ res' = [res EXCEPT !.attempt = @ + 1]
  /\ remote' = [remote EXCEPT !.get_secret_bundle = @ + 1]
  /\ cb' = IF rcfg.cb_enabled THEN _on_failure(cb, now) ELSE cb
  /\ UNCHANGED <<now, ovars, cbpc, cb0, tCall, admitted, invoked, funcOut, callOut, rec, consecFail, hoSucc, rcfg, cache, metrics, snap, last, calls>>

\* One get_secret_bundle call inside retry_with_backoff fails with a
\* retryable error and another attempt follows (lines 252-271).
AttemptRetry ==
  /\ res.pc = "attempt"
  /\ \E out \in RemoteOutcomes :
       /\ retry_again(out, res.attempt, rcfg.max_retries)
       /\ res' = [res EXCEPT !.attempt = @ + 1]
  /\ remote' = [remote EXCEPT !.get_secret_bundle = @ + 1]
  /\ UNCHANGED <<now, ovars, cbvars, rcfg, cache, metrics, snap, last, calls>>

\* The last get_secret_bundle call of _fetch_secret_with_retry: its outcome
\* goes through CircuitBreaker.call (189-195), fetch_secret_by_ocid (718-751)
\* and resolve_secret (841-858), which writes the cache or falls back.
AttemptFinish ==
  /\ res.pc = "attempt"
  /\ \E out \in RemoteOutcomes, w \in WriteOutcomes :
       /\ ~retry_again(out, res.attempt, rcfg.max_retries)
       /\ IF rcfg.cb_enabled THEN BreakerFinish(out) ELSE UNCHANGED cbvars
       /\ LET file == get_cache_path(res.url[1])
              m1 == IF out.kind = "return" THEN retries_tracked(metrics, res.initial_retries) ELSE metrics
              f == fetch_secret_by_ocid(out, m1)
              t == resolve_after_fetch(f.out, res.cached, cache[file], now, w, f.metrics)
          IN /\ Finish([res EXCEPT !.fetched = Some(f.out)], t.result, t.metrics, t.wrote)
             /\ cache' = [cache EXCEPT ![file] = t.file]
  /\ remote' = [remote EXCEPT !.get_secret_bundle = @ + 1]
  /\ UNCHANGED <<now, ovars, rcfg, snap, calls>>

\* resolve_secret returns to its caller, or its exception reaches the caller.
ResolveReturn ==
  /\ res.pc = "done"
  /\ res' = ResIdle
  /\ snap' = [t |-> now, cache |-> cache, metrics |-> metrics, cb |-> cb, last |-> last]
  /\ remote' = Remote0
  /\ IF cbpc # "idle" THEN BreakerIdle ELSE UNCHANGED cbvars
  /\ UNCHANGED <<now, ovars, rcfg, cache, metrics, last, calls>>

Next == ResolveStart \/ NameLookup \/ FetchEnter \/ AttemptRetry \/ AttemptFinish \/ ResolveReturn \/ Tick

Spec == Init /\ [][Next]_vars

\* ------------------------------- VaultResolver with a default compartment
\* VaultResolver(enable_circuit_breaker=False, default_compartment_id=...)
DefaultCompartment == Seg("ocid1.compartment.", "D")
InitDefault ==
  /\ now = 0
  /\ rcfg = [ttl |-> Ttl, max_retries |-> MaxRetries, cb_enabled |-> FALSE, default_compartment_id |-> Some(DefaultCompartment)]
  /\ cb = NoBreaker
  /\ cb0 = cb
  /\ tCall = 0
  /\ CallIdle
  /\ consecFail = 0
  /\ hoSucc = 0
  /\ cache \in CacheDirs
  /\ ResolverUnused
  /\ retry = RetryIdle
  /\ cacheop = CacheOpIdle
  /\ pv = ParseIdle
  /\ wr = WritersIdle
  /\ doc = DocIdle
  /\ par = ParIdle

SpecDefault == InitDefault /\ [][Next]_vars

\* ---------------------------------------- retry_with_backoff used on its own
\* A resolver and a breaker that are constructed and not used.
AllUnused ==
  /\ now = 0
  /\ cb = NoBreaker
  /\ cb0 = cb
  /\ tCall = 0
  /\ CallIdle
  /\ consecFail = 0
  /\ hoSucc = 0
  /\ rcfg = [ttl |-> Ttl, max_retries |-> 0, cb_enabled |-> FALSE, default_compartment_id |-> None]
  /\ cache = [f \in Files |-> NoFile]
  /\ ResolverUnused

\* wrapper(*args) is called.
InitRetry ==
  /\ AllUnused
  /\ retry \in {wrapper(m, c) : m \in 0..MaxWrapperRetries, c \in RetryableClasses}
  /\ cacheop = CacheOpIdle
  /\ pv = ParseIdle
  /\ wr = WritersIdle
  /\ doc = DocIdle
  /\ par = ParIdle

\* func fails with a retryable error before the last attempt: wrapper sleeps
\* and goes round the loop.
WrapperRetry ==
  /\ retry.out = None
  /\ \E out \in WrappedOutcomes :
       /\ retry' = wrapper_attempt(retry, out)
       /\ retry'.out = None
  /\ UNCHANGED <<now, cbvars, rvars, cacheop, doc, par, pv, wr>>

\* func returns, or raises an error that ends the loop: wrapper returns or raises.
WrapperExit ==
  /\ retry.out = None
  /\ \E out \in WrappedOutcomes :
       /\ retry' = wrapper_attempt(retry, out)
       /\ retry'.out # None
  /\ UNCHANGED <<now, cbvars, rvars, cacheop, doc, par, pv, wr>>

NextRetry == WrapperRetry \/ WrapperExit

SpecRetry == InitRetry /\ [][NextRetry]_vars

\* -------------------------------- get_cached_secret / cache_secret used directly
\* The keys the cache methods are called with.
DirectKeys == <<RefDirect, RefDirectV2, RefUnencodable, RefColliding>>

InitCache ==
  /\ now = 0
  /\ cb = NoBreaker
  /\ cb0 = cb
  /\ tCall = 0
  /\ CallIdle
  /\ consecFail = 0
  /\ hoSucc = 0
  /\ rcfg = [ttl |-> Ttl, max_retries |-> 0, cb_enabled |-> FALSE, default_compartment_id |-> None]
  /\ cache \in OldDirs
  /\ ResolverUnused
  /\ retry = RetryIdle
  /\ cacheop = CacheOpIdle
  /\ pv = ParseIdle
  /\ wr = WritersIdle
  /\ doc = DocIdle
  /\ par = ParIdle

\* cache_secret(cache_key, secret_value), lines 627-642; get_cache_path is
\* called before the try (line 629).
CacheSecret ==
  /\ calls < MaxCacheOps
  /\ \E i \in 1..Len(DirectKeys), secret_value \in Values \cup {""}, w \in WriteOutcomes :
       LET cache_key == DirectKeys[i]
           file == get_cache_path(cache_key)
       IN IF ~encodable(cache_key)
            THEN /\ cacheop' = [op |-> "cache_secret", key |-> Some(cache_key), at |-> now, ret |-> Some(Raise(UnicodeEncodeError))]
                 /\ UNCHANGED <<cache, last>>
            ELSE /\ cacheop' = [op |-> "cache_secret", key |-> Some(cache_key), at |-> now, ret |-> Some(Return(None))]
                 /\ cache' = [cache EXCEPT ![file] = cache_secret(@, secret_value, now, w)]
                 /\ last' = [last EXCEPT ![file] = Some([value |-> secret_value, at |-> now,
                                                         written |-> w \in {"ok", "chmod_error"} /\ cache[file].kind # "denied",
                                                         cache_key |-> cache_key])]
  /\ calls' = calls + 1
  /\ UNCHANGED <<now, cbvars, rcfg, metrics, res, snap, remote, retry, doc, par, pv, wr>>

\* get_cached_secret(cache_key), lines 589-625; get_cache_path is called
\* before the try (line 595).
GetCachedSecret ==
  /\ calls < MaxCacheOps
  /\ \E i \in 1..Len(DirectKeys) :
       LET cache_key == DirectKeys[i]
           g == get_cached_secret(cache[get_cache_path(cache_key)], now, rcfg.ttl, metrics)
           x == get_cached_secret_raises(cache_key, cache[get_cache_path(cache_key)])
       IN IF x # None
            THEN /\ cacheop' = [op |-> "get_cached_secret", key |-> Some(cache_key), at |-> now, ret |-> Some(Raise(x[1]))]
                 /\ metrics' = metrics
            ELSE /\ cacheop' = [op |-> "get_cached_secret", key |-> Some(cache_key), at |-> now, ret |-> Some(Return(g.cached))]
                 /\ metrics' = g.metrics
  /\ calls' = calls + 1
  /\ UNCHANGED <<now, cbvars, rcfg, cache, res, snap, remote, last, retry, doc, par, pv, wr>>

NextCache == CacheSecret \/ GetCachedSecret \/ Tick

SpecCache == InitCache /\ [][NextCache]_vars

\* ------------------------------------------------ parse_vault_url on strings
InitParse ==
  /\ AllUnused
  /\ retry = RetryIdle
  /\ cacheop = CacheOpIdle
  /\ pv = ParseIdle
  /\ wr = WritersIdle
  /\ doc = DocIdle
  /\ par = ParIdle

\* parse_vault_url(url) is called with a string.
ParseVaultUrl ==
  /\ pv.url = None
  /\ \E prefix \in Prefixes, path \in Paths, query \in Queries :
       LET url == prefix \o path \o query
       IN pv' = [url |-> Some(url), out |-> Some(parse_vault_url(read_url(url)))]
  /\ UNCHANGED <<now, cbvars, rvars, retry, cacheop, doc, par, wr>>

NextParse == ParseVaultUrl

SpecParse == InitParse /\ [][NextParse]_vars

\* ------------------------------ cache_secret / get_cached_secret in threads
\* The secret values written, as their characters: a short and a longer one.
WrittenValues == {<<"a">>, <<"b", "b">>}
\* json.dump(cache_data): the bytes of the file for a value.
dumps(value) == <<"{">> \o value \o <<"}">>
\* json.load of the bytes of the file: the value, or None when the bytes are
\* not one JSON document (JSONDecodeError).
loads(bytes) ==
  IF \E v \in WrittenValues : bytes = dumps(v)
    THEN Some(CHOOSE v \in WrittenValues : bytes = dumps(v))
    ELSE None
\* A thread calling cache_secret(key, value) or get_cached_secret(key).
Writer(value) == [op |-> "cache_secret", pc |-> "start", value |-> Some(value), ret |-> None]
Reader == [op |-> "get_cached_secret", pc |-> "start", value |-> None, ret |-> None]

\* Threads of one process (the executor threads of fetch_secrets_parallel) or
\* of several processes sharing cache_dir use the entry of one key, which
\* does not exist yet.
InitThreads ==
  /\ AllUnused
  /\ retry = RetryIdle
  /\ cacheop = CacheOpIdle
  /\ pv = ParseIdle
  /\ doc = DocIdle
  /\ par = ParIdle
  /\ \E threads \in SeqsOf({Writer(v) : v \in WrittenValues} \cup {Reader}, MaxThreads) :
       wr = [pc |-> "running", bytes |-> None, threads |-> threads]

ThreadsFrame == UNCHANGED <<now, cbvars, rvars, retry, cacheop, doc, par, pv>>

\* cache_secret, line 634: open(cache_path, "w") creates or truncates the
\* file; the thread's file position is 0.
ThreadOpen(i) ==
  /\ i \in 1..Len(wr.threads)
  /\ wr.threads[i].op = "cache_secret"
  /\ wr.threads[i].pc = "start"
  /\ wr' = [wr EXCEPT !.bytes = Some(<<>>), !.threads[i].pc = "opened"]
  /\ ThreadsFrame

\* cache_secret, lines 635-638: json.dump fills the buffer of the file object
\* and the end of the with block writes it at the thread's file position,
\* over what the file holds there; bytes beyond it stay.
ThreadWrite(i) ==
  /\ i \in 1..Len(wr.threads)
  /\ wr.threads[i].op = "cache_secret"
  /\ wr.threads[i].pc = "opened"
  /\ LET data == dumps(wr.threads[i].value[1])
         held == wr.bytes[1]
     IN wr' = [wr EXCEPT !.bytes = Some(data \o SubSeq(held, Len(data) + 1, Len(held))),
                         !.threads[i].pc = "done"]
  /\ ThreadsFrame

\* get_cached_secret, lines 597-625: the file as it is at this moment is
\* loaded; a missing file and bytes that do not parse give None.
ThreadRead(i) ==
  /\ i \in 1..Len(wr.threads)
  /\ wr.threads[i].op = "get_cached_secret"
  /\ wr.threads[i].pc = "start"
  /\ wr' = [wr EXCEPT !.threads[i].pc = "done",
                      !.threads[i].ret = IF wr.bytes = None THEN None ELSE loads(wr.bytes[1])]
  /\ ThreadsFrame

NextThreads ==
  \/ \E i \in 1..MaxThreads : ThreadOpen(i)
  \/ \E i \in 1..MaxThreads : ThreadWrite(i)
  \/ \E i \in 1..MaxThreads : ThreadRead(i)

SpecThreads == InitThreads /\ [][NextThreads]_vars

\* ------------------------------------------------------------ resolve_config
\* resolve_config(config) is called with a document.
InitDoc ==
  /\ AllUnused
  /\ retry = RetryIdle
  /\ cacheop = CacheOpIdle
  /\ pv = ParseIdle
  /\ wr = WritersIdle
  /\ doc \in {[DocIdle EXCEPT !.pc = "called", !.given = c, !.config = c] : c \in Configs}
  /\ par = ParIdle

\* resolve_config runs: the references are located, resolved (each to a value
\* or to None) and applied to the document.
ResolveConfig ==
  /\ doc.pc = "called"
  /\ \E resolved_secrets \in [DocUrls -> {None} \cup {Some(v) : v \in Values}] :
       LET r == resolve_config(doc.config, resolved_secrets)
       IN doc' = [doc EXCEPT !.pc = "done", !.resolved_secrets = resolved_secrets, !.config = r.obj, !.raised = r.exc]
  /\ UNCHANGED <<now, cbvars, rvars, retry, cacheop, par, pv, wr>>

NextDoc == ResolveConfig

SpecDoc == InitDoc /\ [][NextDoc]_vars

\* ---------------------------------------------------- fetch_secrets_parallel
\* What the remote does for the secret of a reference whenever it is fetched
\* (after the retries): it returns its value, or fails.
WorldOutcomes == {Return("v1"), Raise(ServiceError(500))}

\* fetch_secrets_parallel(vault_urls) is called on a new resolver: one task per
\* element of the list (line 1006), each running resolve_secret in a thread of
\* the default executor (line 1002).
InitPar ==
  /\ now = 0
  /\ rcfg \in {[ttl |-> Ttl, max_retries |-> MaxRetries, cb_enabled |-> e, default_compartment_id |-> None] : e \in BOOLEAN}
  /\ cb \in IF rcfg.cb_enabled
              THEN {CircuitBreaker(ft, RECOVERY_TIMEOUT, SUCCESS_THRESHOLD) : ft \in 1..MaxBreakerThreshold}
              ELSE {NoBreaker}
  /\ cb0 = cb
  /\ tCall = 0
  /\ CallIdle
  /\ consecFail = 0
  /\ hoSucc = 0
  /\ cache \in CacheDirs
  /\ ResolverUnused
  /\ retry = RetryIdle
  /\ cacheop = CacheOpIdle
  /\ pv = ParseIdle
  /\ wr = WritersIdle
  /\ doc = DocIdle
  /\ \E vault_urls \in SeqsOf(1..Len(Refs), MaxBatch), world \in [Files -> WorldOutcomes] :
       /\ \A f \in Files : (\A i \in 1..Len(vault_urls) : vault_urls[i] # f) => world[f] = Return("v1")
       /\ par = [ParIdle EXCEPT !.pc = "running", !.vault_urls = vault_urls, !.world = world,
                                !.tasks = [i \in 1..Len(vault_urls) |-> Task(vault_urls[i])]]

\* The shared objects a task step does not touch.
ParFrame == UNCHANGED <<now, cbpc, cb0, tCall, admitted, invoked, funcOut, callOut, rec, consecFail, hoSucc,
                        rcfg, res, snap, remote, last, calls, retry, cacheop, doc, pv, wr>>
\* Task i goes on to add 1 to counter ctr and then to `next`.
Adding(t, ctr, next) == [t EXCEPT !.pc = "inc", !.ctr = ctr, !.tmp = None, !.next = next]

\* resolve_secret begins in the thread of task i, lines 809-829: the cache
\* file is looked at and the reference parsed.
TaskStart(i) ==
  /\ i \in 1..Len(par.tasks)
  /\ par.tasks[i].pc = "start"
  /\ LET t == par.tasks[i]
         vault_url == Refs[t.url]
         file == cache[get_cache_path(vault_url)]
         g == get_cached_secret(file, now, rcfg.ttl, metrics)
         parsed == parse_vault_url(vault_url)
         fresh == g.cached # None /\ ~g.cached[1].is_stale
         after == IF ~TruthySeg(parsed[1]) /\ ~TruthySeg(parsed[3])
                    THEN "done"
                    ELSE IF ~TruthySeg(parsed[1])
                           THEN IF ~TruthySeg(parsed[2]) THEN "done" ELSE "lookup"
                           ELSE "fetch"
         t1 == [t EXCEPT !.cached = g.cached]
     IN par' = [par EXCEPT !.tasks[i] =
                  IF get_cached_secret_raises(vault_url, file) # None
                    THEN [t EXCEPT !.pc = "done", !.raised = get_cached_secret_raises(vault_url, file)]
                    ELSE IF fresh
                           THEN Adding([t1 EXCEPT !.value = Some(g.cached[1].value)], "cache_hits", "done")
                           ELSE IF file.kind = "absent"
                                  THEN Adding(t1, "cache_misses", after)
                                  ELSE [t1 EXCEPT !.pc = after]]
  /\ UNCHANGED <<cb, cache, metrics>>
  /\ ParFrame

\* self.metrics[ctr] += 1 in the thread of task i: the value is read ...
CounterLoad(i) ==
  /\ i \in 1..Len(par.tasks)
  /\ par.tasks[i].pc = "inc"
  /\ par.tasks[i].tmp = None
  /\ par' = [par EXCEPT !.tasks[i].tmp = Some(metrics[par.tasks[i].ctr])]
  /\ UNCHANGED <<cb, cache, metrics>>
  /\ ParFrame

\* ... and the value read plus 1 is stored. No lock is held in between.
CounterStore(i) ==
  /\ i \in 1..Len(par.tasks)
  /\ par.tasks[i].pc = "inc"
  /\ par.tasks[i].tmp # None
  /\ metrics' = [metrics EXCEPT ![par.tasks[i].ctr] = par.tasks[i].tmp[1] + 1]
  /\ par' = [par EXCEPT !.tasks[i].pc = par.tasks[i].next, !.tasks[i].tmp = None,
                        !.incs[par.tasks[i].ctr] = @ + 1]
  /\ UNCHANGED <<cb, cache>>
  /\ ParFrame

\* find_secret_by_name in the thread of task i (lines 833-838).
TaskLookup(i) ==
  /\ i \in 1..Len(par.tasks)
  /\ par.tasks[i].pc = "lookup"
  /\ \E listed \in LookupOutcomes :
       par' = [par EXCEPT !.tasks[i].listed = Some(listed),
                          !.tasks[i].pc = IF TruthySeg(find_secret_by_name(listed)) THEN "fetch" ELSE "fallback"]
  /\ UNCHANGED <<cb, cache, metrics>>
  /\ ParFrame

\* fetch_secret_by_ocid begins in the thread of task i: CircuitBreaker.call
\* admits or rejects (lines 180-187); a rejection is counted (lines 739-746).
TaskAdmit(i) ==
  /\ i \in 1..Len(par.tasks)
  /\ par.tasks[i].pc = "fetch"
  /\ LET t == par.tasks[i]
         a == call_admit(cb, now)
     IN IF rcfg.cb_enabled
          THEN /\ cb' = a.cb
               /\ par' = [par EXCEPT !.tasks[i] =
                            IF a.admitted
                              THEN [t EXCEPT !.pc = "remote"]
                              ELSE Adding([t EXCEPT !.rejected = TRUE, !.fetched = Some(Raise(BreakerOpenError))],
                                          "circuit_breaker_opens", "fallback")]
          ELSE /\ cb' = cb
               /\ par' = [par EXCEPT !.tasks[i].pc = "remote"]
  /\ UNCHANGED <<cache, metrics>>
  /\ ParFrame

\* _fetch_secret_with_retry ends in the thread of task i with what the remote
\* does for the reference; the breaker records it (lines 189-195) and
\* fetch_secret_by_ocid maps it (lines 718-751).
TaskRemote(i) ==
  /\ i \in 1..Len(par.tasks)
  /\ par.tasks[i].pc = "remote"
  /\ LET t == par.tasks[i]
         out == par.world[t.url]
         f == fetch_secret_by_ocid(out, metrics)
         t1 == [t EXCEPT !.fetched = Some(f.out)]
     IN /\ cb' = IF rcfg.cb_enabled THEN call_finish(cb, out, now).cb ELSE cb
        /\ par' = [par EXCEPT !.fetches[t.url] = @ + 1,
                              !.tasks[i] =
                                IF out.kind = "return"
                                  THEN IF Truthy(out.val)
                                         THEN Adding([t1 EXCEPT !.value = out.val], "secrets_fetched", "write")
                                         ELSE Adding(t1, "secrets_fetched", "fallback")
                                  ELSE [t1 EXCEPT !.pc = "fallback"]]
  /\ UNCHANGED <<cache, metrics>>
  /\ ParFrame

\* cache_secret in the thread of task i (line 845).
TaskWrite(i) ==
  /\ i \in 1..Len(par.tasks)
  /\ par.tasks[i].pc = "write"
  /\ \E w \in WriteOutcomes :
       cache' = [cache EXCEPT ![get_cache_path(Refs[par.tasks[i].url])] = cache_secret(@, par.tasks[i].value[1], now, w)]
  /\ par' = [par EXCEPT !.tasks[i].pc = "done"]
  /\ UNCHANGED <<cb, metrics>>
  /\ ParFrame

\* _try_stale_cache_fallback in the thread of task i.
TaskFallback(i) ==
  /\ i \in 1..Len(par.tasks)
  /\ par.tasks[i].pc = "fallback"
  /\ LET t == par.tasks[i]
         fb == _try_stale_cache_fallback(t.cached, metrics)
     IN par' = [par EXCEPT !.tasks[i] =
                  IF t.cached # None
                    THEN Adding([t EXCEPT !.value = fb.value], "stale_cache_used", "done")
                    ELSE [t EXCEPT !.pc = "done", !.value = None]]
  /\ UNCHANGED <<cb, cache, metrics>>
  /\ ParFrame

\* dict(results), line 1009: for a reference given several times the result
\* of its last task.
ResultMap ==
  [u \in {par.vault_urls[i] : i \in 1..Len(par.vault_urls)} |->
     par.tasks[CHOOSE i \in 1..Len(par.tasks) :
                 par.vault_urls[i] = u /\ \A j \in (i + 1)..Len(par.tasks) : par.vault_urls[j] # u].value]

\* asyncio.gather (line 1007): every task has returned, and the map is returned.
Gather ==
  /\ par.pc = "running"
  /\ \A i \in 1..Len(par.tasks) : par.tasks[i].pc = "done" /\ par.tasks[i].raised = None
  /\ par' = [par EXCEPT !.pc = "returned", !.out = Some(Return(ResultMap))]
  /\ UNCHANGED <<cb, cache, metrics>>
  /\ ParFrame

\* asyncio.gather without return_exceptions: the exception of a task is
\* raised to the caller as soon as that task has ended.
GatherRaise ==
  /\ par.pc = "running"
  /\ \E i \in 1..Len(par.tasks) :
       /\ par.tasks[i].pc = "done"
       /\ par.tasks[i].raised # None
       /\ par' = [par EXCEPT !.pc = "raised", !.out = Some(Raise(par.tasks[i].raised[1]))]
  /\ UNCHANGED <<cb, cache, metrics>>
  /\ ParFrame

NextPar ==
  \/ \E i \in 1..MaxBatch : TaskStart(i)
  \/ \E i \in 1..MaxBatch : CounterLoad(i)
  \/ \E i \in 1..MaxBatch : CounterStore(i)
  \/ \E i \in 1..MaxBatch : TaskLookup(i)
  \/ \E i \in 1..MaxBatch : TaskAdmit(i)
  \/ \E i \in 1..MaxBatch : TaskRemote(i)
  \/ \E i \in 1..MaxBatch : TaskWrite(i)
  \/ \E i \in 1..MaxBatch : TaskFallback(i)
  \/ Gather
  \/ GatherRaise
  \/ Tick

SpecPar == InitPar /\ [][NextPar]_vars

\* ------------------------------------- resolve_config's sequential fallback
\* resolve_config on a new resolver, asyncio.run raising RuntimeError (lines
\* 1034-1035): the references of vault_urls are resolved by the loop of lines
\* 1039-1041. No time passes while the batch is resolved.
InitFallback ==
  /\ now \in 0..MaxTime
  /\ rcfg \in {[ttl |-> Ttl, max_retries |-> MaxRetries, cb_enabled |-> e, default_compartment_id |-> None] : e \in BOOLEAN}
  /\ cb \in IF rcfg.cb_enabled
              THEN {CircuitBreaker(ft, RECOVERY_TIMEOUT, SUCCESS_THRESHOLD) : ft \in 1..MaxBreakerThreshold}
              ELSE {NoBreaker}
  /\ cb0 = cb
  /\ tCall = 0
  /\ CallIdle
  /\ consecFail = 0
  /\ hoSucc = 0
  /\ cache \in CacheDirs
  /\ ResolverUnused
  /\ retry = RetryIdle
  /\ cacheop = CacheOpIdle
  /\ pv = ParseIdle
  /\ wr = WritersIdle
  /\ doc = DocIdle
  /\ \E vault_urls \in SeqsOf(1..Len(Refs), MaxBatch), world \in [Files -> WorldOutcomes] :
       /\ \A f \in Files : (\A i \in 1..Len(vault_urls) : vault_urls[i] # f) => world[f] = Return("v1")
       /\ par = [ParIdle EXCEPT !.pc = "running", !.mode = "sequential", !.vault_urls = vault_urls, !.world = world,
                                !.tasks = [i \in 1..Len(vault_urls) |-> Task(vault_urls[i])]]

\* The loop of lines 1039-1041 calls resolve_secret for element i when the
\* calls for the elements before it have returned; the threads of the
\* executor run in any order.
Turn(i) == par.mode = "parallel" \/ \A j \in 1..(i - 1) : par.tasks[j].pc = "done" /\ par.tasks[j].raised = None

\* The loop has assigned resolved_secrets[vault_url] for every element (for a
\* reference given several times the value of its last call). To compare,
\* fetch_secrets_parallel is then given the same list on the resolver, cache
\* and remote the loop started with.
SequentialDone ==
  /\ par.mode = "sequential"
  /\ par.pc = "running"
  /\ \A i \in 1..Len(par.tasks) : par.tasks[i].pc = "done" /\ par.tasks[i].raised = None
  /\ par' = [par EXCEPT !.mode = "parallel",
                        !.sequential = Some([out |-> Return(ResultMap), tasks |-> par.tasks]),
                        !.tasks = [i \in 1..Len(par.vault_urls) |-> Task(par.vault_urls[i])],
                        !.incs = ParIdle.incs,
                        !.fetches = ParIdle.fetches]
  /\ cb' = snap.cb
  /\ cache' = snap.cache
  /\ metrics' = snap.metrics
  /\ ParFrame

\* A resolve_secret call of the loop raised: nothing in resolve_config
\* catches it (the except of line 1035 is no longer in effect).
SequentialRaise ==
  /\ par.mode = "sequential"
  /\ par.pc = "running"
  /\ \E i \in 1..Len(par.tasks) :
       /\ par.tasks[i].pc = "done"
       /\ par.tasks[i].raised # None
       /\ par' = [par EXCEPT !.pc = "raised", !.out = Some(Raise(par.tasks[i].raised[1]))]
  /\ UNCHANGED <<cb, cache, metrics>>
  /\ ParFrame

\* A list that reaches the parallel path here made no call of the loop raise,
\* and the same calls on the same cache do not raise in the threads either.
NextFallback ==
  \/ \E i \in 1..MaxBatch : Turn(i) /\ TaskStart(i)
  \/ \E i \in 1..MaxBatch : Turn(i) /\ CounterLoad(i)
  \/ \E i \in 1..MaxBatch : Turn(i) /\ CounterStore(i)
  \/ \E i \in 1..MaxBatch : Turn(i) /\ TaskLookup(i)
  \/ \E i \in 1..MaxBatch : Turn(i) /\ TaskAdmit(i)
  \/ \E i \in 1..MaxBatch : Turn(i) /\ TaskRemote(i)
  \/ \E i \in 1..MaxBatch : Turn(i) /\ TaskWrite(i)
  \/ \E i \in 1..MaxBatch : Turn(i) /\ TaskFallback(i)
  \/ SequentialDone
  \/ SequentialRaise
  \/ par.mode = "parallel" /\ Gather

SpecFallback == InitFallback /\ [][NextFallback]_vars

\* ------------------------------------------------------------------ claims
\* The state the breaker was in when func was invoked by the current call.
AdmittedIn(st) == cbpc = "returned" /\ admitted /\ st = (IF cb0.state = OPEN THEN HALF_OPEN ELSE cb0.state)
FuncFailed == funcOut # None /\ funcOut[1].kind = "raise"
FuncSucceeded == funcOut # None /\ funcOut[1].kind = "return"

\* C1: a call that fails while the breaker is Closed leaves it Open exactly
\* when it is the failure_threshold-th failure in a row (Closed after fewer),
\* and a call that succeeds while Closed leaves it Closed with failure_count 0,
\* so that failures separated by a success do not add up.
C1_OpensAtThreshold ==
  AdmittedIn(CLOSED) =>
    /\ FuncFailed =>
         /\ consecFail <= cb.failure_threshold
         /\ cb.state = (IF consecFail = cb.failure_threshold THEN OPEN ELSE CLOSED)
    /\ FuncSucceeded => (cb.state = CLOSED /\ cb.failure_count = 0)

C1_Witness ==
  /\ AdmittedIn(CLOSED)
  /\ FuncFailed
  /\ cb.state = OPEN
  /\ cb.failure_threshold = 3
  /\ consecFail = 3

\* C3 (as claimed): a call that fails while the breaker is HalfOpen leaves it
\* Open, whatever failure_threshold is and whether or not successes preceded.
C3_HalfOpenFailureOpens ==
  (AdmittedIn(HALF_OPEN) /\ FuncFailed) => cb.state = OPEN

\* C4: a call made in HalfOpen leaves the breaker Closed exactly when it is the
\* success_threshold-th success in a row since HalfOpen was entered; while
\* HalfOpen the run of successes is shorter; after closing both counters are 0.
C4_ClosesAtSuccessThreshold ==
  /\ AdmittedIn(HALF_OPEN) =>
       /\ (cb.state = CLOSED) <=> (FuncSucceeded /\ hoSucc = cb.success_threshold)
       /\ cb.state = CLOSED => (cb.failure_count = 0 /\ cb.success_count = 0)
  /\ cb.state = HALF_OPEN => hoSucc < cb.success_threshold

C4_Witness ==
  /\ AdmittedIn(HALF_OPEN)
  /\ cb0.state = HALF_OPEN
  /\ cb.state = CLOSED
  /\ cb.success_threshold = 2
  /\ hoSucc = 2

\* C5: the only step that takes the breaker out of Open is the start of a call
\* made when at least recovery_timeout has passed since the last recorded
\* failure; it leads to HalfOpen, the call is admitted, and an admitted call
\* invokes the wrapped function (once).
C5_LeavesOpenOnlyByTimedProbe ==
  /\ [][(cb.state = OPEN /\ cb'.state # OPEN) =>
          /\ cb'.state = HALF_OPEN
          /\ cb.last_failure_time # None
          /\ now - cb.last_failure_time[1] >= cb.recovery_timeout
          /\ cbpc = "idle" /\ cbpc' = "running" /\ admitted']_vars
  /\ []((cbpc = "returned" /\ admitted) => invoked = 1)

C5_Witness ==
  /\ cbpc = "running"
  /\ admitted
  /\ cb0.state = OPEN
  /\ cb.state = HALF_OPEN

\* C6: an admitted call invokes func once, returns what func returned or raises
\* what func raised, and runs exactly one bookkeeping handler: _on_success for
\* a return, _on_failure for an exception.
C6_OutcomePropagated ==
  (cbpc = "returned" /\ admitted) =>
    /\ invoked = 1
    /\ callOut = funcOut
    /\ rec = <<IF FuncSucceeded THEN "success" ELSE "failure">>

C6_Witness ==
  /\ cbpc = "returned"
  /\ admitted
  /\ callOut = Some(Raise(ServiceError(404)))
  /\ rec = <<"failure">>

\* C32: in every state reached by calls made one after another, success_count
\* is 0 while Closed or Open and below success_threshold while HalfOpen; Closed
\* implies failure_count < failure_threshold; Open implies failure_count >=
\* failure_threshold with last_failure_time set.
C32_CounterInvariants ==
  /\ cb.state \in {CLOSED, OPEN} => cb.success_count = 0
  /\ cb.state = HALF_OPEN => cb.success_count < cb.success_threshold
  /\ cb.state = CLOSED => cb.failure_count < cb.failure_threshold
  /\ cb.state = OPEN => (cb.failure_count >= cb.failure_threshold /\ cb.last_failure_time # None)
\* A failed probe re-opened a breaker that had counted a success in HalfOpen.
C32_Witness ==
  /\ cbpc = "returned"
  /\ cb0.state = HALF_OPEN
  /\ cb0.success_count = 1
  /\ FuncFailed
  /\ cb.state = OPEN

\* C33: when time keeps advancing, calls keep being made and every call
\* admitted after the breaker opened succeeds, an Open breaker eventually
\* becomes Closed, and so does a HalfOpen one; rejected calls do not postpone it.
C33_RecoveryLiveness ==
  /\ (cb.state = OPEN) ~> (cb.state = CLOSED)
  /\ (cb.state = HALF_OPEN) ~> (cb.state = CLOSED)
\* A call was rejected after the failure that opened the breaker, and the
\* breaker has closed again since.
C33_Witness ==
  /\ cb.state = CLOSED
  /\ cb.last_failure_time # None
  /\ cbpc = "returned"
  /\ cb0.state = HALF_OPEN
  /\ cb0.success_count + 1 = cb0.success_threshold
  /\ cb0.success_threshold = 2
  /\ now > cb.last_failure_time[1] + cb.recovery_timeout

\* ------------------------------------------------- claims on resolve_secret
Done == res.pc = "done"
\* The cache file of the reference being resolved: now, and when the call began.
File == cache[get_cache_path(res.url[1])]
File0 == snap.cache[get_cache_path(res.url[1])]
\* A value was cached for the reference when the call began, and it was fresh.
HadValue == File0.kind = "json" /\ Truthy(File0.value)
FreshAtStart == HadValue /\ snap.t - (IF File0.cached_at = None THEN 0 ELSE File0.cached_at[1]) <= rcfg.ttl
\* How the call went.
LookupFailed == res.listed # None /\ res.listed[1] # "found"
FetchFailed == res.fetched # None /\ (res.fetched[1].kind = "raise" \/ res.fetched[1].val = None)
FetchedValue == res.fetched # None /\ res.fetched[1].kind = "return" /\ Truthy(res.fetched[1].val)
Rejected == cbpc = "returned" /\ ~admitted

\* C2: a guarded call made while the breaker is Open and less than
\* recovery_timeout after the last recorded failure is rejected with the
\* breaker-open error: func is not invoked and the breaker is left exactly as it
\* was; in the resolver the rejected fetch makes no get_secret_bundle call and
\* adds exactly 1 to metrics circuit_breaker_opens.
C2_RejectedWhileOpen ==
  /\ (cbpc # "idle" /\ cb0.state = OPEN /\ cb0.last_failure_time # None /\ tCall - cb0.last_failure_time[1] < cb0.recovery_timeout) => Rejected
  /\ Rejected =>
       /\ cb0.state = OPEN
       /\ callOut = Some(Raise(BreakerOpenError))
       /\ invoked = 0
       /\ funcOut = None
       /\ rec = <<>>
       /\ cb = cb0
       /\ Done
       /\ remote.get_secret_bundle = 0
       /\ metrics.circuit_breaker_opens = snap.metrics.circuit_breaker_opens + 1

C2_Witness ==
  /\ Done
  /\ Rejected
  /\ remote.get_secret_bundle = 0
  /\ metrics.circuit_breaker_opens = snap.metrics.circuit_breaker_opens + 1

\* C7: when resolve_secret found no fresh entry and the name lookup or the value
\* fetch failed (whatever the error), it returns the cached value if there is
\* one and adds exactly 1 to stale_cache_used; with no cached value it returns
\* None and stale_cache_used is unchanged.
C7_StaleFallback ==
  (Done /\ ~FreshAtStart /\ (LookupFailed \/ FetchFailed)) =>
    IF HadValue
      THEN res.result = File0.value /\ metrics.stale_cache_used = snap.metrics.stale_cache_used + 1
      ELSE res.result = None /\ metrics.stale_cache_used = snap.metrics.stale_cache_used

C7_Witness ==
  /\ Done
  /\ HadValue
  /\ ~FreshAtStart
  /\ Rejected
  /\ res.result = Some("v1")
  /\ metrics.stale_cache_used = 1

\* C8: no step removes a cache file, a step changes a cache file only when it
\* ends a remote fetch that returned a value (and then only the file of the
\* reference being resolved), and a resolve_secret that did not fetch a value
\* leaves the whole cache as it found it.
C8_CacheKeptOnFailure ==
  /\ [][\A f \in Files :
          /\ cache[f].kind # "absent" => cache'[f].kind # "absent"
          /\ cache'[f] # cache[f] =>
               /\ res.pc = "attempt"
               /\ res'.pc = "done"
               /\ f = get_cache_path(res.url[1])
               /\ res'.fetched[1].kind = "return"
               /\ Truthy(res'.fetched[1].val)]_vars
  /\ []((Done /\ ~FetchedValue) => cache = snap.cache)

C8_Witness ==
  /\ Done
  /\ HadValue
  /\ FetchFailed
  /\ res.fetched[1].kind = "raise"
  /\ File = File0

\* C9: resolve_secret that finds a fresh entry returns its value, makes no
\* remote operation, and neither consults nor changes the breaker.
C9_FreshHitIsLocal ==
  (Done /\ FreshAtStart) =>
    /\ res.result = File0.value
    /\ remote = Remote0
    /\ cbpc = "idle"
    /\ cb = snap.cb
    /\ cache = snap.cache

C9_Witness ==
  /\ Done
  /\ FreshAtStart
  /\ cb.state = OPEN
  /\ res.result = Some("v1")

\* The previous resolve_secret of the same reference fetched a value from the
\* remote, and this call began within the TTL of that.
Prev == snap.last[get_cache_path(res.url[1])]
SecondWithinTtl == Done /\ Prev # None /\ snap.t - Prev[1].at <= rcfg.ttl

\* C10 (as claimed): whenever resolve_secret obtained a value from the remote,
\* the next resolve_secret of the same reference within the TTL returns that
\* value without any remote call.
C10_SecondResolveIsHit ==
  SecondWithinTtl => (res.result = Some(Prev[1].value) /\ remote = Remote0)

\* C10 (amended): a resolve_secret that obtained a value from the remote made
\* one fetch and, unless the cache write failed, left the value in the cache;
\* if the write did not fail, the next resolve_secret of the same reference
\* within the TTL returns that value without any remote call.
C10_SecondResolveIsHitIfWritten ==
  /\ (Done /\ FetchedValue) =>
       /\ remote.fetches = 1
       /\ res.result = res.fetched[1].val
       /\ res.wrote \in {Some("ok"), Some("chmod_error")} => (File.kind = "json" /\ File.value = res.result)
  /\ (SecondWithinTtl /\ Prev[1].written) => (res.result = Some(Prev[1].value) /\ remote = Remote0)

C10_Witness ==
  /\ SecondWithinTtl
  /\ Prev[1].written
  /\ snap.t > Prev[1].at
  /\ res.result = Some("v1")
  /\ remote = Remote0

\* C11 (as claimed): resolve_secret never raises; whatever the reference and
\* whatever fails, it ends by returning a string value or None.
C11_NeverRaises ==
  Done => (res.raised = None /\ res.result \in {None} \cup {Some(v) : v \in Values})

\* resolve_secret fetched a value and the write of its cache entry failed.
WriteFailed == Done /\ res.wrote # None /\ res.wrote[1] # "ok"

\* C23: when the write of the cache entry fails, nothing is raised and
\* resolve_secret returns the value it fetched from the remote.
C23_WriteFailureSwallowed ==
  WriteFailed =>
    /\ res.raised = None
    /\ FetchedValue
    /\ res.result = res.fetched[1].val

\* open() of the cache file fails after a fetch of "v1": the file is as it
\* was and "v1" is returned.
C23_Witness ==
  /\ WriteFailed
  /\ res.wrote = Some("open_error")
  /\ File = File0
  /\ res.result = Some("v1")

\* The call resolved a reference of one segment without the identifier
\* marker, and no fresh cache entry answered it.
UnqualifiedName ==
  /\ Done
  /\ res.raised = None
  /\ ~FreshAtStart
  /\ Len(res.url[1].path) = 1
  /\ ~startswith(res.url[1].path[1], "ocid1.vaultsecret.")
  /\ TruthySeg(Some(res.url[1].path[1]))

\* C27 (as claimed): with a default container configured, an unqualified
\* named reference is resolved by a name lookup (list_secrets) in it.
C27_DefaultContainerUsed ==
  (UnqualifiedName /\ rcfg.default_compartment_id # None) => remote.list_secrets >= 1

\* The breaker as CircuitBreaker.call left it before invoking the fetch.
BreakerAtInvocation == call_admit(cb0, tCall).cb
\* A fetch_secret_by_ocid that went through the breaker has finished.
FetchThroughBreaker == rcfg.cb_enabled /\ admitted /\ cbpc = "returned" /\ funcOut # None
ExhaustedRetries ==
  /\ FetchThroughBreaker
  /\ funcOut[1].kind = "raise"
  /\ isinstance(funcOut[1].exc[1], FETCH_RETRYABLE)

\* C30: the breaker wraps the whole retried fetch. While the attempts of one
\* fetch go on the breaker is as it was at the invocation; a fetch that fails
\* after exhausting its retries made max_retries + 1 remote calls and records
\* exactly one failure; a fetch that succeeds, after retries or not, records
\* one success and no failure; and the breaker opens from CLOSED when the
\* failed fetches in a row, not the failed remote calls, reach failure_threshold.
C30_BreakerWrapsRetriedFetch ==
  /\ (rcfg.cb_enabled /\ res.pc = "attempt") => cb = BreakerAtInvocation /\ rec = <<>>
  /\ ExhaustedRetries =>
       /\ remote.get_secret_bundle = rcfg.max_retries + 1
       /\ rec = <<"failure">>
       /\ cb.failure_count = BreakerAtInvocation.failure_count + 1
  /\ (FetchThroughBreaker /\ funcOut[1].kind = "return") =>
       /\ rec = <<"success">>
       /\ cb.failure_count = 0
       /\ cb.last_failure_time = cb0.last_failure_time
  /\ (FetchThroughBreaker /\ cb0.state = CLOSED /\ cb.state = OPEN) =>
       consecFail = cb.failure_threshold
\* A fetch made two remote calls, failed, and that one failure opened the breaker.
C30_Witness ==
  /\ ExhaustedRetries
  /\ remote.get_secret_bundle = 2
  /\ cb0.state = CLOSED
  /\ cb.state = OPEN
  /\ cb.failure_count = 1
\* A fetch succeeded on its second remote call.
C30_WitnessSuccessAfterRetry ==
  /\ FetchThroughBreaker
  /\ funcOut[1].kind = "return"
  /\ remote.get_secret_bundle = 2

\* The breaker is Open and the recovery timeout has not elapsed.
BreakerRejecting == rcfg.cb_enabled /\ cb.state = OPEN /\ ~_should_attempt_reset(cb, now)

\* C31 (as claimed): while the breaker is Open with the recovery timeout not
\* elapsed, no step invokes a remote operation, neither get_secret_bundle nor
\* list_secrets, for any reference.
C31_OpenBreakerBlocksRemote ==
  [][BreakerRejecting =>
       /\ remote'.get_secret_bundle <= remote.get_secret_bundle
       /\ remote'.list_secrets <= remote.list_secrets]_vars

\* C34 (as claimed): a remote fetch that needed k attempts after its first
\* increases metrics["retries"] by exactly k (by 0 when the first attempt
\* settled it).
C34_RetriesCounted ==
  (res.pc = "done" /\ remote.get_secret_bundle > 0) =>
    metrics.retries = snap.metrics.retries + (remote.get_secret_bundle - 1)

\* The class fetch_secret_by_ocid raises for a service error of a status.
MappedClass(status) ==
  IF status = 404 THEN "SecretNotFoundError"
  ELSE IF status = 401 THEN "AuthenticationError"
  ELSE IF status = 403 THEN "PermissionDeniedError"
  ELSE "VaultResolverError"
\* The retried remote fetch of the current call ended in an exception.
RemoteFailed == FetchThroughBreaker /\ Done /\ funcOut[1].kind = "raise"

FetchedEmpty == Done /\ res.fetched = Some(Return(""))

\* C36: when the remote returns an empty secret value, resolve_secret writes
\* nothing to the cache and returns the stale cached value if there is one,
\* otherwise None.
C36_EmptyValueUnresolved ==
  FetchedEmpty =>
    /\ res.wrote = None
    /\ cache = snap.cache
    /\ res.result = (IF HadValue THEN File0.value ELSE None)
\* An empty value arrived while a stale entry existed, and the stale value was returned.
C36_Witness ==
  /\ FetchedEmpty
  /\ HadValue
  /\ ~FreshAtStart
  /\ res.result = Some("v1")
  /\ File = File0

\* The entry of the reference was stale when the call began, and the call
\* fetched a value from the remote.
StaleRefreshed == Done /\ HadValue /\ ~FreshAtStart /\ FetchedValue
\* The entry holds the value returned, stamped during the call.
EntryRewritten ==
  /\ File.kind = "json"
  /\ File.value = res.result
  /\ File.cached_at # None
  /\ File.cached_at[1] >= snap.t
  /\ File.cached_at[1] <= now

\* C37 (as claimed): when the entry is stale and the remote fetch succeeds,
\* resolve_secret returns the fetched value, the entry is overwritten with it
\* and the current time, and stale_cache_used is not incremented.
C37_StaleRefreshOverwrites ==
  StaleRefreshed =>
    /\ res.result = res.fetched[1].val
    /\ EntryRewritten
    /\ metrics.stale_cache_used = snap.metrics.stale_cache_used

\* C37 (amended): the same, the entry being overwritten unless the cache write
\* failed; and a call counts a stale use only when its refresh did not bring a
\* value.
C37_StaleRefreshOverwritesIfWritten ==
  /\ StaleRefreshed =>
       /\ res.result = res.fetched[1].val
       /\ res.wrote \in {Some("ok"), Some("chmod_error")} => EntryRewritten
       /\ metrics.stale_cache_used = snap.metrics.stale_cache_used
  /\ (Done /\ metrics.stale_cache_used # snap.metrics.stale_cache_used) => ~FetchedValue
\* A stale "v1" was replaced by a fetched "v2".
C37_Witness ==
  /\ StaleRefreshed
  /\ File0.value = Some("v1")
  /\ res.result = Some("v2")
  /\ res.wrote = Some("ok")
  /\ EntryRewritten
  /\ File.cached_at[1] > File0.cached_at[1]

\* ------------------------------------------------ claims on retry_with_backoff
\* The wrapped call's i-th invocation raised an error of the retryable class.
RaisedRetryable(i) == retry.hist[i].kind = "raise" /\ isinstance(retry.hist[i].exc[1], retry.retryable_exceptions)
Invocations == Len(retry.hist)
WrapperDone == retry.out # None

\* C16: with max_retries = m, the wrapped call is invoked at most m+1 times;
\* if it raised retryable errors k times and then returned, k <= m, it was
\* invoked k+1 times and wrapper returns that value; if it raised retryable
\* errors every time, wrapper ends after exactly m+1 invocations and m sleeps
\* and raises the last of those errors itself.
C16_RetriesThenResult ==
  /\ Invocations <= retry.max_retries + 1
  /\ Invocations = retry.max_retries + 1 => WrapperDone
  /\ \A i \in 1..(Invocations - 1) : RaisedRetryable(i)
  /\ (WrapperDone /\ retry.hist[Invocations].kind = "return") =>
       /\ retry.out = Some(retry.hist[Invocations])
       /\ Len(retry.slept) = Invocations - 1
  /\ (WrapperDone /\ RaisedRetryable(Invocations)) =>
       /\ Invocations = retry.max_retries + 1
       /\ Len(retry.slept) = retry.max_retries
       /\ retry.out = Some(retry.hist[Invocations])

\* Two retries, then a different error from the first one is raised.
C16_Witness ==
  /\ WrapperDone
  /\ retry.max_retries = 2
  /\ Invocations = 3
  /\ RaisedRetryable(3)
  /\ retry.hist[3] # retry.hist[1]
  /\ retry.out = Some(retry.hist[3])

\* C17 (as claimed): with the retryable class _fetch_secret_with_retry
\* designates, a fetch whose first attempt fails with 404, 401 or 403 is
\* invoked once and that error surfaces without a sleep.
C17_OnlyTransientRetried ==
  (/\ retry.retryable_exceptions = FETCH_RETRYABLE
   /\ Invocations >= 1
   /\ retry.hist[1].kind = "raise"
   /\ retry.hist[1].exc[1].type = "ServiceError"
   /\ retry.hist[1].exc[1].status \in {401, 403, 404}) =>
    /\ Invocations = 1
    /\ retry.slept = <<>>
    /\ retry.out = Some(retry.hist[1])

\* C18: an invocation that raises an exception outside the retryable class is
\* the last one: wrapper raises that exception at once, with no sleep after
\* it; when it is the first invocation, there is one invocation and no sleep.
C18_NonRetryablePropagates ==
  \A i \in 1..Invocations :
    (retry.hist[i].kind = "raise" /\ ~isinstance(retry.hist[i].exc[1], retry.retryable_exceptions)) =>
      /\ i = Invocations
      /\ retry.out = Some(retry.hist[i])
      /\ Len(retry.slept) = i - 1

C18_Witness ==
  /\ retry.max_retries = 2
  /\ retry.retryable_exceptions = "ServiceError"
  /\ retry.hist = <<Raise(OtherException)>>
  /\ retry.out = Some(Raise(OtherException))
  /\ retry.slept = <<>>

\* ------------------------------------------------- claims on the cache methods
\* The latest call was get_cached_secret(k), the latest cache_secret(k, v)
\* before it wrote its file, and the read came within the TTL of that write.
Written == last[get_cache_path(cacheop.key[1])]
ReadBackWithinTtl ==
  /\ cacheop.op = "get_cached_secret"
  /\ encodable(cacheop.key[1])
  /\ Written # None
  /\ Written[1].written
  /\ cacheop.at - Written[1].at <= rcfg.ttl

\* C20 (as claimed): after cache_secret(k, v) without a write failure,
\* get_cached_secret(k) within the TTL returns (v, is_stale = false), for every
\* key k and every value v.
C20_RoundTrip ==
  ReadBackWithinTtl =>
    cacheop.ret = Some(Return(Some([value |-> Written[1].value, is_stale |-> FALSE])))

\* C20 (amended): the same for every non-empty value v; after
\* cache_secret(k, "") the read returns None.
C20_RoundTripNonEmpty ==
  ReadBackWithinTtl =>
    cacheop.ret = Some(Return(IF Written[1].value = ""
                                THEN None
                                ELSE Some([value |-> Written[1].value, is_stale |-> FALSE])))

\* A value read back when its age is exactly the TTL.
C20_Witness ==
  /\ ReadBackWithinTtl
  /\ cacheop.at - Written[1].at = rcfg.ttl
  /\ Written[1].at > 0
  /\ cacheop.ret = Some(Return(Some([value |-> "v2", is_stale |-> FALSE])))

\* The latest call was get_cached_secret(k); Entry is the file of k, which no
\* call has touched since.
Read == cacheop.op = "get_cached_secret"
Entry == cache[get_cache_path(cacheop.key[1])]
HoldsValue == Entry.kind = "json" /\ Truthy(Entry.value)
\* The time the entry was cached at: its "cached_at", or 0 when it has none.
CachedAt == IF Entry.cached_at = None THEN 0 ELSE Entry.cached_at[1]

\* C21: get_cached_secret of an entry holding a value returns the pair
\* (value, is_stale) with is_stale true exactly when now - cached_at > ttl (an
\* age of exactly ttl is fresh), and an entry without a timestamp is read as
\* cached at time 0: it is returned as such a pair, not as absent or an error.
C21_StaleExactlyPastTtl ==
  (Read /\ HoldsValue) =>
    cacheop.ret = Some(Return(Some([value |-> Entry.value[1], is_stale |-> cacheop.at - CachedAt > rcfg.ttl])))

\* An entry without a timestamp is read when the clock is past the TTL, and
\* comes back stale.
C21_Witness ==
  /\ Read
  /\ HoldsValue
  /\ Entry.cached_at = None
  /\ cacheop.at > rcfg.ttl
  /\ cacheop.ret = Some(Return(Some([value |-> "v1", is_stale |-> TRUE])))

\* C22 (as claimed): get_cached_secret never raises, and it returns None when
\* the file does not exist, cannot be read or parsed, or holds an empty or
\* missing value.
C22_AbsentNeverRaises ==
  Read =>
    /\ cacheop.ret[1].kind = "return"
    /\ ~HoldsValue => cacheop.ret = Some(Return(None))

\* Two references that differ only in the version qualifier.
DifferOnlyInVersion(k1, k2) == k1 # k2 /\ k1.match = k2.match /\ k1.path = k2.path

\* C24: cache_secret for one reference leaves the entry of every reference
\* that differs from it only in the version qualifier as it was (its value
\* and its cached_at, hence its freshness), so that a value cached for one
\* version is not read back for another.
C24_VersionsCachedApart ==
  [][(cacheop' # cacheop /\ cacheop'.op = "cache_secret") =>
       \A i \in 1..Len(CacheKeys) :
         DifferOnlyInVersion(CacheKeys[i], cacheop'.key[1]) =>
           cache'[get_cache_path(CacheKeys[i])] = cache[get_cache_path(CacheKeys[i])]]_vars

\* "v2" has been cached for version 2 of the secret while the entry of the
\* reference without a version still holds "v1".
C24_Witness ==
  /\ cacheop.op = "cache_secret"
  /\ cacheop.key = Some(RefDirectV2)
  /\ cache[get_cache_path(RefDirectV2)].value = Some("v2")
  /\ cache[get_cache_path(RefDirect)].value = Some("v1")
  /\ DifferOnlyInVersion(RefDirect, RefDirectV2)

\* C39 (as claimed): a value that get_cached_secret(R) returns was stored for
\* R: the cache_secret call that wrote the file it was read from was made
\* with the reference R, also when the file names of two references coincide.
C39_ValueStoredForReference ==
  (/\ cacheop.op = "get_cached_secret"
   /\ cacheop.ret # None
   /\ cacheop.ret[1].kind = "return"
   /\ cacheop.ret[1].val[1] # None
   /\ Written # None
   /\ Written[1].written)
    => Written[1].cache_key = cacheop.key[1]

\* ------------------------------------------------ claims on parse_vault_url
\* parse_vault_url was called with the string Given and returned Tuple.
Parsed == pv.out # None
Given == pv.url[1]
Tuple == pv.out[1]
\* The string starts with the scheme and has text after it.
HasScheme == Len(Given) >= 2 /\ Head(Given) = SCHEME
\* The text after the scheme, its path (the text before the first "?") and
\* its query string (the text after the first "?").
AfterScheme == Tail(Given)
QueryStart == IF contains(AfterScheme, "?") THEN CHOOSE i \in 1..Len(AfterScheme) : AfterScheme[i] = "?" /\ \A j \in 1..(i - 1) : AfterScheme[j] # "?" ELSE Len(AfterScheme) + 1
Path == SubSeq(AfterScheme, 1, QueryStart - 1)
Query == SubSeq(AfterScheme, QueryStart + 1, Len(AfterScheme))
\* The path has one more segment than it has "/"; an empty path has none.
Slashes == Cardinality({i \in 1..Len(Path) : Path[i] = "/"})
Segments == IF Path = <<>> THEN 0 ELSE Slashes + 1
SlashAt == CHOOSE i \in 1..Len(Path) : Path[i] = "/"
\* A secret identifier or a name that is present and not empty.
NonEmpty(x) == x # None /\ (x[1].prefix # "" \/ x[1].rest # "")

\* C25 (as claimed): parse_vault_url returns "no match" for a string without
\* the scheme and for a path of zero or of three or more segments, and a
\* result other than "no match" carries a non-empty secret identifier or a
\* non-empty secret name.
C25_NoMatchNeverPartial ==
  Parsed =>
    /\ (~HasScheme \/ Segments = 0 \/ Segments >= 3) => Tuple = NoMatch
    /\ Tuple # NoMatch => (NonEmpty(Tuple[1]) \/ NonEmpty(Tuple[3]))

\* The parameters of the query string: the stretches i..j between "&"s.
IsParam(i, j) ==
  /\ i <= j
  /\ i = 1 \/ Query[i - 1] = "&"
  /\ j = Len(Query) \/ Query[j + 1] = "&"
  /\ \A k \in i..j : Query[k] # "&"
\* The well-formed version parameters: version=<digits>.
VersionParams ==
  {ij \in (1..Len(Query)) \X (1..Len(Query)) :
     /\ IsParam(ij[1], ij[2])
     /\ ij[2] >= ij[1] + 2
     /\ Query[ij[1]] = "version"
     /\ Query[ij[1] + 1] = "="
     /\ \A k \in (ij[1] + 2)..ij[2] : Query[k] = "2"}
\* The version the string asks for: that of its (last) well-formed version
\* parameter, None when it has none.
Version ==
  IF VersionParams = {}
    THEN None
    ELSE LET ij == CHOOSE x \in VersionParams : \A y \in VersionParams : y[1] <= x[1]
         IN Some(int(SubSeq(Query, ij[1] + 2, ij[2])))

\* C26: for a string with the scheme, one segment starting with the marker
\* gives (segment, None, None, v), one segment without it (the marker in
\* upper case included) gives (None, None, segment, v), two segments give
\* (None, first, second, v); v is the integer of the version parameter when
\* there is a well-formed one and None otherwise.
C26_ShapesAndVersion ==
  (Parsed /\ HasScheme) =>
    /\ (Slashes = 0 /\ Path # <<>> /\ Head(Path) = MARKER) =>
         Tuple = <<Some(segment(Path)), None, None, Version>>
    /\ (Slashes = 0 /\ ~(Path # <<>> /\ Head(Path) = MARKER)) =>
         Tuple = <<None, None, Some(segment(Path)), Version>>
    /\ Slashes = 1 =>
         Tuple = <<None, Some(segment(SubSeq(Path, 1, SlashAt - 1))),
                   Some(segment(SubSeq(Path, SlashAt + 1, Len(Path)))), Version>>

\* "oci-vault://ocid1.vaultsecret.db?version=2" is parsed to the identifier
\* and version 2.
C26_Witness ==
  /\ Parsed
  /\ Given = <<SCHEME, MARKER, "db", "?", "version", "=", "2">>
  /\ Tuple = <<Some(Seg(MARKER, "db")), None, None, Some(2)>>

\* --------------------------------------- claims on the cache used by threads
Writers == {i \in 1..Len(wr.threads) : wr.threads[i].op = "cache_secret"}
AllWritten == Writers # {} /\ \A i \in Writers : wr.threads[i].pc = "done"

\* C29 (as claimed): whatever the interleaving of the cache_secret and
\* get_cached_secret calls on one key, once every write has finished the file
\* parses and holds the whole value of one of the writes.
C29_WholeValueOfOneWrite ==
  AllWritten => \E i \in Writers : loads(wr.bytes[1]) = wr.threads[i].value

\* ------------------------------------------------- claims on resolve_config
\* The document with every reference leaf replaced by what it resolved to, and
\* nothing else changed.
RECURSIVE Rewritten(_, _)
Rewritten(obj, resolved_secrets) ==
  IF obj.t = "dict"
    THEN DictNode([i \in 1..Len(obj.items) |-> Item(obj.items[i].k, Rewritten(obj.items[i].v, resolved_secrets))])
    ELSE IF obj.t = "list"
           THEN ListNode([i \in 1..Len(obj.items) |-> Rewritten(obj.items[i], resolved_secrets)])
           ELSE IF VAULT_URL_PATTERN_match(obj.s) /\ resolved_secrets[obj.s] # None
                  THEN StrNode(resolved_secrets[obj.s][1])
                  ELSE obj
AllResolved == \A u \in DocUrls : doc.resolved_secrets[u] # None

\* C19 (as claimed): after resolve_config of a non-empty document with every
\* reference resolved, each leaf that held a reference holds its resolved
\* value and every other key, element, value and container is as it was.
C19_OnlyReferenceLeavesChange ==
  (doc.pc = "done" /\ doc.given.items # <<>> /\ AllResolved) =>
    /\ doc.raised = None
    /\ doc.config = Rewritten(doc.given, doc.resolved_secrets)

\* The places of a document, each the sequence of positions (of an entry in
\* its map, of an element in its list) leading to it from the top.
Child(obj, i) == IF obj.t = "dict" THEN obj.items[i].v ELSE obj.items[i]
RECURSIVE ReferencePlaces(_)
ReferencePlaces(obj) ==
  IF obj.t = "str"
    THEN IF VAULT_URL_PATTERN_match(obj.s) THEN {<<>>} ELSE {}
    ELSE UNION {{<<i>> \o p : p \in ReferencePlaces(Child(obj, i))} : i \in 1..Len(obj.items)}
RECURSIVE HasPlace(_, _)
HasPlace(obj, place) ==
  \/ place = <<>>
  \/ /\ obj.t # "str"
     /\ Head(place) <= Len(obj.items)
     /\ HasPlace(Child(obj, Head(place)), Tail(place))
RECURSIVE NodeAt(_, _)
NodeAt(obj, place) == IF place = <<>> THEN obj ELSE NodeAt(Child(obj, Head(place)), Tail(place))

\* C38 (as claimed): resolve_config returns the document; at every place where
\* a reference was found the value afterwards is the resolved secret if the
\* reference resolved and the reference string if it did not, whatever became
\* of the other references.
C38_EachPlaceRewrittenOrKept ==
  (doc.pc = "done" /\ doc.given.items # <<>>) =>
    /\ doc.raised = None
    /\ \A place \in ReferencePlaces(doc.given) :
         /\ HasPlace(doc.config, place)
         /\ LET url == NodeAt(doc.given, place).s
                secret_value == doc.resolved_secrets[url]
            IN NodeAt(doc.config, place) = StrNode(IF secret_value # None THEN secret_value[1] ELSE url)

\* ------------------------------- claims on resolve_config's sequential fallback
\* The name lookups made by the two paths were answered alike: every lookup of
\* a reference got the same answer.
Lookups ==
  {<<t.url, t.listed>> : t \in {par.tasks[i] : i \in 1..Len(par.tasks)}
                               \cup {par.sequential[1].tasks[i] : i \in 1..Len(par.tasks)}}
SameRemote == \A a \in Lookups, b \in Lookups : (a[1] = b[1] /\ a[2] # None /\ b[2] # None) => a[2] = b[2]

\* C28 (as claimed): for the same cache contents and the same remote
\* behaviour the parallel path returns the map the sequential fallback yields
\* (and so, the map being applied by the same loop, the same document).
C28_FallbackSameMap ==
  (par.mode = "parallel" /\ par.pc = "returned" /\ par.sequential # None /\ SameRemote)
    => par.out = Some(par.sequential[1].out)

\* ------------------------------------------ claims on fetch_secrets_parallel
TaskIds == 1..Len(par.tasks)
AllTasksDone == \A i \in TaskIds : par.tasks[i].pc = "done"
BatchEnded == par.pc \in {"returned", "raised"}
\* The reference of task i is well-formed and encodable, its name lookup (if
\* it needs one) found the secret, and the remote returns a value for it.
OwnFetchSucceeds(i) ==
  LET t == par.tasks[i]
      parsed == parse_vault_url(Refs[t.url])
  IN /\ encodable(Refs[t.url])
     /\ \/ TruthySeg(parsed[1])
        \/ TruthySeg(parsed[2]) /\ TruthySeg(parsed[3]) /\ t.listed = Some("found")
     /\ par.world[t.url].kind = "return"
     /\ Truthy(par.world[t.url].val)

\* C12 (as claimed): fetch_secrets_parallel ends only when every task has
\* finished, and it ends by returning a map with one key per requested
\* reference, a failed reference mapped to None; no exception escapes.
C12_BatchReturnsMap ==
  BatchEnded =>
    /\ AllTasksDone
    /\ par.pc = "returned"
    /\ DOMAIN par.out[1].val[1] = {par.vault_urls[i] : i \in TaskIds}
    /\ \A i \in TaskIds : par.out[1].val[1][par.vault_urls[i]] \in {None} \cup {Some(v) : v \in Values}

\* C13 (as claimed): a reference whose own fetch succeeds gets a value,
\* whatever its siblings in the batch do and whatever the order of the steps.
C13_SiblingsIndependent ==
  \A i \in TaskIds :
    (par.tasks[i].pc = "done" /\ OwnFetchSucceeds(i)) =>
      (par.tasks[i].raised = None /\ par.tasks[i].value # None)

\* C14 (as claimed): a reference given several times is resolved once: at
\* most one remote fetch is made for it in the batch.
C14_OneFetchPerReference ==
  \A f \in Files : par.fetches[f] <= 1

\* C15 (as claimed): the counters are updated under mutual exclusion: no
\* counter ever decreases, and when the tasks have finished each counter
\* holds the number of increments made to it.
C15_NoLostUpdate ==
  /\ [][\A c \in Counters : metrics'[c] >= metrics[c]]_vars
  /\ [](AllTasksDone => \A c \in Counters : metrics[c] = par.incs[c])

====
